---- MODULE Spec2Model ----
(***************************************************************************)
(* Model of the PocketMicroLIB networking core:                            *)
(*   - SoracomHarvestFiles (soracom_harvest_files.py): the upload FSM,     *)
(*     together with the MicroHttpClient / MicroSocket / SaraR calls its   *)
(*     handlers make;                                                      *)
(*   - SaraR.socket_send (ublox_sara_r.py): the prompt-write send loop;    *)
(*   - MicroModem.send_at / wait_response (micro_modem.py): the AT         *)
(*     transport;                                                          *)
(*   - the SaraR socket API and MicroSocket (ublox_sara_r.py,              *)
(*     micro_socket.py): create, connect, receive through +UUSORD, close;  *)
(*   - SaraR.connect_step, disconnect, initialize, get_time and            *)
(*     MicroModem.get_imsi (ublox_sara_r.py, micro_modem.py): the          *)
(*     connection sequence and the modem queries.                          *)
(* Byte strings are modelled by their length where only the length is used *)
(* by the code; modem replies are modelled as lists of lines.              *)
(***************************************************************************)
EXTENDS Integers, Sequences, FiniteSets, TLC

\* ------------------------------------------------------------------ bounds

\* Scaled stand-in for CHUNK_SIZE = 1024 (soracom_harvest_files.py:28).
CHUNK_SIZE == 2
\* Files on disk are named 1..NumFiles; file 1 is empty, each further one
\* is one byte longer than a whole number of chunks.
NumFiles == 2
\* Length of the encoded request line + header block handed to socket_send.
HEADER_LEN == 1
\* Socket ids the modem hands out are 0..MaxSock-1.
MaxSock == 2
\* The clock (utime.time(), seconds) is explored up to this value.
MaxClock == 300
\* Largest payload of the unit-grained socket_send calls.
MaxLen == 3
\* The per-call counts of exchanges and of zero-write replies are kept up to
\* this value.
CountCap == 4
\* Most payload bytes one call may put on the wire in exchanges whose reply
\* it never saw.
MaxDup == 1
\* The socket layer is explored with modem socket ids 0..NumSockets-1.
NumSockets == 1
\* The peer's stream is explored up to this many bytes.
MaxBytes == 3
\* Most lines pending unread in the UART when a URC arrives, and most lines
\* a pending wait of wait_response_async has accumulated.
MaxUart == 2
\* Largest length a +UUSORD announces.
MaxUrcLen == 2
\* Scaled stand-in for the 1024 bytes MicroSocket.poll asks for
\* (micro_socket.py:49).
POLL_SIZE == 2
\* Sizes passed to socket_recv and MicroSocket.recv are 1..MaxRecv.
MaxRecv == 2
\* The byte-level receive path is explored with every payload of up to
\* MaxData bytes over a three-byte alphabet (and a few longer ones).
MaxData == 2
\* A new +UUSORD arrives only while at most this many bytes are pending
\* unread in the UART.
MaxLeftover == 8
\* Most commands the modem has not answered yet.
MaxPending == 2
\* The longest time between two calls of connect_step, in seconds.
MaxGap == 20

\* ------------------------------------------------------- program constants

HF_IDLE == 0
HF_PREPARE == 1
HF_OPEN == 2
HF_SENDING == 3
HF_CLOSING == 4
HF_DONE == 5
HF_ABORT == 6
HF_WAIT == 7

PREPARE_ATTEMPTS == 5
HEADER_RETRIES == 3
SEND_RETRIES == 20
WAIT_PREPARE == 60
WAIT_OPEN == 3
WAIT_ABORT == 300
MAX_RETRIES == 20
\* get_imsi(retry=2)
IMSI_RETRY == 2
\* get_time: full_year = 2000 + year_short; hour = (hour + 9) % 24
FULL_YEAR_BASE == 2000
JST_OFFSET == 9
\* wait_response_async(expected, timeout=2000)
ASYNC_TIMEOUT == 2000

\* SaraR never assigns sock_num in __init__: reading it before the first
\* successful socket_connect raises AttributeError.
Unset == -2

VARIABLES
  \* SoracomHarvestFiles fields
  state, filename, file, filesize, buf, buf_offset, sent_bytes,
  retry, header_retry, next_time, last_response,
  \* MicroSocket.sock_num, SaraR.sock_num
  msock_num, sara_sock_num,
  \* environment: sockets open at the modem, read position of the open
  \* file, the clock
  modem_open, fpos, clock,
  \* observations of the upload FSM (not read by the program)
  last, at_log, open_fails, send_fails, stat_size, file_opened, verdict,
  \* one socket_send call (SaraR.socket_send)
  s_pc, s_sock, s_len, s_total, s_retries, s_ret,
  s_accepted, s_wire, s_iters, s_zero, s_call_retries, s_last,
  \* SaraR: sock_num, socket_state, _wait_state, _rx_buffer, _rx_pending
  \* (its keys); of last_response the one fact a later operation reads from
  \* it: whether it contains +UUSOCL
  sock_num, socket_state, wait_state, rx_buffer, rx_pending, last_has_uusocl,
  \* MicroSocket: sock_num, _rx_buffer
  m_sock_num, m_rx_buffer,
  \* environment: lines pending in the UART, sockets open at the modem, how
  \* many bytes of the peer's stream the modem has handed over
  uart, modem_socks, next_byte,
  \* observations of the socket layer (not read by the program): bytes
  \* appended to _rx_buffer, bytes returned by socket_recv, ids created and
  \* neither closed nor reported closed, ids closed since the last create,
  \* ids whose +UUSORD a command's wait consumed, the last operation, the
  \* last send_at call of the transport runs
  arrived, delivered, live, stale, swallowed, sk_last, at_ret,
  \* SaraR: connect_state, now - connect_start (ms), modem_model, imsi, and
  \* now - _wait_state["start"] (ms) while a wait is open
  connect_state, connect_elapsed, modem_model, imsi, wait_age,
  \* environment: the commands the modem has not answered yet, oldest first
  c_pending,
  \* observations of the connection sequence (not read by the program): the
  \* UPSD/UPSDA commands the modem answered with OK and the responses
  \* connect_step recognised since the sequence last left idle, the commands dispatched
  \* since then (a command repeated in a row is kept once), the last call
  c_answered, c_seen, c_sent, c_last

fsmVars == <<state, filename, file, filesize, buf, buf_offset, sent_bytes,
             retry, header_retry, next_time, last_response,
             msock_num, sara_sock_num, modem_open, fpos, clock,
             last, at_log, open_fails, send_fails, stat_size, file_opened,
             verdict>>

sendVars == <<s_pc, s_sock, s_len, s_total, s_retries, s_ret,
              s_accepted, s_wire, s_iters, s_zero, s_call_retries, s_last>>

sockVars == <<sock_num, socket_state, wait_state, rx_buffer, rx_pending,
              last_has_uusocl, m_sock_num, m_rx_buffer, uart, modem_socks,
              next_byte, arrived, delivered, live, stale, swallowed, sk_last,
              at_ret>>

connVars == <<connect_state, connect_elapsed, modem_model, imsi, wait_age,
              c_pending, c_answered, c_seen, c_sent, c_last>>

vars == <<fsmVars, sendVars, sockVars, connVars>>

States == {HF_IDLE, HF_PREPARE, HF_OPEN, HF_SENDING, HF_CLOSING, HF_DONE,
           HF_ABORT, HF_WAIT}

Files == 1..NumFiles
SockIds == 0..(MaxSock - 1)

\* os.stat(filename)[6] of a file that is not modified during the upload.
DiskSize(f) == IF f <= 1 THEN 0 ELSE (f - 1) * CHUNK_SIZE + 1

Min(a, b) == IF a < b THEN a ELSE b

\* ---------------------------------------------------------------------
\* SaraR.socket_send and its helpers (ublox_sara_r.py)
\* ---------------------------------------------------------------------

\* A token of a comma-separated reply field: a decimal number or not.
Num(k) == [num |-> TRUE, val |-> k]
NotNum == [num |-> FALSE, val |-> 0]

OkLine == [tag |-> "OK", parts |-> <<>>]
ErrorLine == [tag |-> "ERROR", parts |-> <<>>]
UsowrLine(parts) == [tag |-> "+USOWR:", parts |-> parts]

\* Written counts the modem may report for a request of n bytes: nothing,
\* everything, or a part.  Requests above MaxLen use the literal counts of
\* the partial-write scenario (2500 bytes).
Writes(n) ==
  IF n <= MaxLen THEN 0..n ELSE {0, n} \cup {k \in {1000, 1500} : k < n}

\* What send_at(..., return_raw=True) hands back for AT+USOWR=<sock>,<n>,
\* with the number of payload bytes the modem really took:
\*   none    - None: no prompt, or no OK, within the timeout
\*   lines   - the response split on CR+LF
Reply(none, lines, written) ==
  [none |-> none, lines |-> lines, written |-> written]

Replies(sock, n) ==
     {Reply(TRUE, <<>>, 0)}
  \cup {Reply(FALSE, <<ErrorLine>>, 0)}
  \cup {Reply(FALSE, <<UsowrLine(<<Num(sock), Num(k)>>), OkLine>>, k) : k \in Writes(n)}
  \cup {Reply(FALSE, <<UsowrLine(<<Num(sock)>>), OkLine>>, 0)}
  \cup {Reply(FALSE, <<UsowrLine(<<Num(sock), NotNum>>), OkLine>>, 0)}
  \cup {Reply(FALSE, <<OkLine>>, 0)}

\* Exchanges whose payload went out after the prompt and was taken by the
\* modem (its leading k bytes), while the final wait for OK ran into the
\* 1000 ms timeout: send_at hands back None although the bytes are on the
\* wire.
LostReplies(n) == {Reply(TRUE, <<>>, k) : k \in 1..Min(n, MaxDup)}

\* _parse_usowr_len: the count of the last +USOWR line; -1 when a +USOWR
\* line has not exactly two fields, its count is not a number, or there is
\* no +USOWR line.
RECURSIVE ParseUsowrFrom(_, _, _, _)
ParseUsowrFrom(lines, i, found, sent) ==
  IF i > Len(lines) THEN (IF found THEN sent ELSE -1)
  ELSE IF lines[i].tag = "+USOWR:"
       THEN IF Len(lines[i].parts) # 2 THEN -1
            ELSE IF ~lines[i].parts[2].num THEN -1
            ELSE ParseUsowrFrom(lines, i + 1, TRUE, lines[i].parts[2].val)
       ELSE ParseUsowrFrom(lines, i + 1, found, sent)

ParseUsowrLen(lines) == ParseUsowrFrom(lines, 1, FALSE, 0)

\* _send_once: -1 on no response or parse failure, else the parsed count.
SendOnce(reply) ==
  IF reply.none \/ reply.lines = <<>> THEN -1
  ELSE LET sent == ParseUsowrLen(reply.lines)
       IN IF sent < 0 THEN -1 ELSE sent

\* socket_send, the for/else branch: all MAX_RETRIES used up.
SendExhaustedMut(total) == total
SendExhausted(total) == -1

\* socket_send, the inner loop's test "retries < MAX_RETRIES".
RetriesLeftMut(retries) == retries <= MAX_RETRIES
RetriesLeft(retries) == retries < MAX_RETRIES

\* socket_send, one pass of the inner loop entered with total < n and
\* retries < MAX_RETRIES, given the result of _send_once.
SendIterate(n, total, retries, sent) ==
  IF sent <= 0
  THEN IF RetriesLeft(retries + 1)
       THEN [pc |-> "loop", total |-> total, retries |-> retries + 1, ret |-> 0]
       ELSE [pc |-> "returned", total |-> total, retries |-> retries + 1,
             ret |-> SendExhausted(total)]
  ELSE IF total + sent < n
       THEN [pc |-> "loop", total |-> total + sent, retries |-> 0, ret |-> 0]
       ELSE [pc |-> "returned", total |-> total + sent, retries |-> retries,
             ret |-> total + sent]

\* socket_send up to the first pass of the loop.
SendEnter(sock, n) ==
  IF sock = Unset
  THEN [pc |-> "raised", total |-> 0, retries |-> 0, ret |-> 0]
  ELSE IF sock < 0
  THEN [pc |-> "returned", total |-> 0, retries |-> 0, ret |-> -1]
  ELSE IF 0 < n
  THEN [pc |-> "loop", total |-> 0, retries |-> 0, ret |-> 0]
  ELSE [pc |-> "returned", total |-> 0, retries |-> 0, ret |-> 0]

\* Every value one call socket_send(data), len(data) = n, can return, over
\* all sequences of modem replies.
RECURSIVE SendReturnsFrom(_, _, _, _)
SendReturnsFrom(sock, n, total, retries) ==
  LET nexts == {SendIterate(n, total, retries, SendOnce(rep)) :
                  rep \in Replies(sock, n - total)}
  IN UNION {IF r.pc = "returned" THEN {r.ret}
            ELSE SendReturnsFrom(sock, n, r.total, r.retries) : r \in nexts}

SocketSendReturns(sock, n) ==
  LET e == SendEnter(sock, n)
  IN IF e.pc = "returned" THEN {e.ret}
     ELSE IF e.pc = "raised" THEN {}
     ELSE SendReturnsFrom(sock, n, 0, 0)

\* Payload lengths of the calls explored step by step.
DataLens == 0..MaxLen \cup {2500}

SendIdle ==
  /\ s_pc = "idle" /\ s_sock = Unset /\ s_len = 0 /\ s_total = 0
  /\ s_retries = 0 /\ s_ret = 0 /\ s_accepted = 0 /\ s_wire = 0
  /\ s_iters = 0 /\ s_zero = 0 /\ s_call_retries = 0
  /\ s_last = [sent |-> 0, total |-> 0, retries |-> 0]

\* socket_send(data) is called on a modem whose sock_num is sock.
SendCall(sock, n) ==
  /\ s_pc = "idle"
  /\ LET e == SendEnter(sock, n)
     IN /\ s_pc' = e.pc
        /\ s_total' = e.total
        /\ s_retries' = e.retries
        /\ s_ret' = e.ret
  /\ s_sock' = sock
  /\ s_len' = n
  /\ UNCHANGED <<s_accepted, s_wire, s_iters, s_zero, s_call_retries, s_last>>
  /\ UNCHANGED <<fsmVars, sockVars, connVars>>

\* One AT+USOWR exchange of the running call and what the loop does with it.
SendExchange(rep) ==
  /\ s_pc = "loop"
  /\ (s_wire - s_accepted) + (IF SendOnce(rep) > 0 THEN 0 ELSE rep.written) <= MaxDup
  /\ LET sent == SendOnce(rep)
         r == SendIterate(s_len, s_total, s_retries, sent)
     IN /\ s_pc' = r.pc
        /\ s_total' = r.total
        /\ s_retries' = r.retries
        /\ s_ret' = r.ret
        /\ s_accepted' = IF sent > 0 THEN s_accepted + rep.written ELSE s_accepted
        /\ s_zero' = IF sent = 0 THEN Min(s_zero + 1, CountCap) ELSE s_zero
        /\ s_call_retries' = IF sent <= 0
                             THEN Min(s_call_retries + 1, MAX_RETRIES + 1)
                             ELSE s_call_retries
        /\ s_last' = [sent |-> sent, total |-> s_total, retries |-> s_retries]
  /\ s_wire' = s_wire + rep.written
  /\ s_iters' = Min(s_iters + 1, CountCap)
  /\ UNCHANGED <<s_sock, s_len>>
  /\ UNCHANGED <<fsmVars, sockVars, connVars>>

\* The call is over; the next one starts from a fresh frame.
SendDone ==
  /\ s_pc \in {"returned", "raised"}
  /\ s_pc' = "idle" /\ s_sock' = Unset /\ s_len' = 0 /\ s_total' = 0
  /\ s_retries' = 0 /\ s_ret' = 0 /\ s_accepted' = 0 /\ s_wire' = 0
  /\ s_iters' = 0 /\ s_zero' = 0 /\ s_call_retries' = 0
  /\ s_last' = [sent |-> 0, total |-> 0, retries |-> 0]
  /\ UNCHANGED <<fsmVars, sockVars, connVars>>

SendNext ==
  \/ \E sock \in {Unset, -1} \cup SockIds, n \in DataLens : SendCall(sock, n)
  \/ \E rep \in Replies(s_sock, s_len - s_total)
                 \cup LostReplies(s_len - s_total) : SendExchange(rep)
  \/ SendDone

\* Constant table of SocketSendReturns for the payloads the upload FSM
\* sends (header block, chunk tails).
MaxPayload == IF CHUNK_SIZE < HEADER_LEN THEN HEADER_LEN ELSE CHUNK_SIZE

SendReturnTable ==
  [sock \in SockIds |-> [n \in 0..MaxPayload |-> SocketSendReturns(sock, n)]]

\* ---------------------------------------------------------------------
\* MicroModem: the AT transport (micro_modem.py)
\* ---------------------------------------------------------------------

\* A line of modem output.  Only the fields a tag uses are meaningful:
\*   "+USOCR:"  sock              "+UUSOCL:" sock
\*   "+UUSORD:" sock, n           "+USORD:"  sock, n, data
\*   "+USOWR:"  sock, n
AtLine(tag, sock, n, data) == [tag |-> tag, sock |-> sock, n |-> n, data |-> data]

OkL == AtLine("OK", -1, 0, <<>>)
ErrorL == AtLine("ERROR", -1, 0, <<>>)
CmeErrorL == AtLine("+CME ERROR", -1, 0, <<>>)
PromptL == AtLine("@", -1, 0, <<>>)
UsocrL(s) == AtLine("+USOCR:", s, 0, <<>>)
UusoclL(s) == AtLine("+UUSOCL:", s, 0, <<>>)
UusordL(s, n) == AtLine("+UUSORD:", s, n, <<>>)
UsordL(s, data) == AtLine("+USORD:", s, Len(data), data)

\* marker in buffer (bytes.__contains__), for the markers the code looks for.
HasMarker(buffer, marker) ==
  \E i \in 1..Len(buffer) :
    IF marker = "ERROR"
    THEN buffer[i].tag \in {"ERROR", "+CME ERROR", "+CMS ERROR"}
    ELSE buffer[i].tag = marker

\* wait_response: "ERROR" covers "+CME ERROR" and "+CMS ERROR" as well.
HasError(buffer) == HasMarker(buffer, "ERROR")

RECURSIVE Flatten(_)
Flatten(chunks) ==
  IF chunks = <<>> THEN <<>> ELSE Head(chunks) \o Flatten(Tail(chunks))

\* What successive _read() calls return during one wait: first whatever is
\* already pending in the UART, then the chunks that arrive.
Reads(pending, chunks) == IF pending = <<>> THEN chunks ELSE <<pending>> \o chunks

\* wait_response(expected): the loop over the reads that arrive before the
\* timeout.  kind is "error" (an error marker is in the buffer), "found"
\* (expected is in the buffer) or "timeout"; buffer is what was accumulated
\* (also left in last_response); rest is what was not read.
RECURSIVE WaitFrom(_, _, _)
WaitFrom(reads, expected, buffer) ==
  IF reads = <<>>
  THEN [kind |-> "timeout", buffer |-> buffer, rest |-> <<>>]
  ELSE IF Head(reads) = <<>>
  THEN WaitFrom(Tail(reads), expected, buffer)
  ELSE LET b == buffer \o Head(reads)
       IN IF HasError(b)
          THEN [kind |-> "error", buffer |-> b, rest |-> Tail(reads)]
          ELSE IF HasMarker(b, expected)
          THEN [kind |-> "found", buffer |-> b, rest |-> Tail(reads)]
          ELSE WaitFrom(Tail(reads), expected, b)

wait_response(reads, expected) == WaitFrom(reads, expected, <<>>)

\* send_at, the prompt wait: the value of "prompt_resp is None".
PromptMissing(p) == p.kind = "timeout"

\* send_at, from "Wait for OK" on.
\*   ret   - "true" / "false" / "none" / "raw" (the response is returned)
\*   resp  - the response returned when ret = "raw"
\*   last  - last_response afterwards
\*   wrote - the payload was written to the UART
\*   perr  - the prompt wait ended on an error marker
SendAtFinal(reads, raw, wrote, perr) ==
  LET Final(f) ==
        IF f.kind = "timeout"
        THEN [ret |-> IF raw THEN "none" ELSE "false", resp |-> <<>>,
              last |-> f.buffer, rest |-> f.rest, wrote |-> wrote,
              perr |-> perr, fin |-> f.kind]
        ELSE IF HasError(f.buffer)
        THEN [ret |-> IF raw THEN "raw" ELSE "false", resp |-> f.buffer,
              last |-> f.buffer, rest |-> f.rest, wrote |-> wrote,
              perr |-> perr, fin |-> f.kind]
        ELSE [ret |-> IF raw THEN "raw" ELSE "true", resp |-> f.buffer,
              last |-> f.buffer, rest |-> f.rest, wrote |-> wrote,
              perr |-> perr, fin |-> f.kind]
  IN Final(wait_response(reads, "OK"))

\* send_at(cmd, expect_prompt=prompt, data_after_prompt, return_raw) in
\* synchronous mode; prompt = "none" stands for expect_prompt=None.
send_at(reads, prompt, has_data, raw) ==
  IF prompt = "none"
  THEN SendAtFinal(reads, raw, FALSE, FALSE)
  ELSE LET AfterPrompt(p) ==
             IF PromptMissing(p)
             THEN [ret |-> IF raw THEN "none" ELSE "false", resp |-> <<>>,
                   last |-> p.buffer, rest |-> p.rest, wrote |-> FALSE,
                   perr |-> FALSE, fin |-> "none"]
             ELSE IF ~has_data
             THEN [ret |-> IF raw THEN "raw" ELSE "true", resp |-> p.buffer,
                   last |-> p.buffer, rest |-> p.rest, wrote |-> FALSE,
                   perr |-> p.kind = "error", fin |-> "none"]
             ELSE SendAtFinal(p.rest, raw, TRUE, p.kind = "error")
       IN AfterPrompt(wait_response(reads, prompt))

\* The call reports success: True, or a raw response without error marker.
SendAtSucceeded(r) ==
  \/ r.ret = "true"
  \/ r.ret = "raw" /\ r.resp # <<>> /\ ~HasError(r.resp)

\* The ways the repository calls send_at synchronously: plain commands
\* (no prompt, boolean result) and _send_once (prompt "@", payload, raw).
AtModes == {[prompt |-> "none", has_data |-> FALSE, raw |-> FALSE],
            [prompt |-> "@", has_data |-> TRUE, raw |-> TRUE]}

\* Lines the modem may emit in answer to a command of the transport runs.
AtMenu == {OkL, ErrorL, CmeErrorL, PromptL, UusordL(0, 1)}

\* Modem output during one call, as the chunks successive reads return.
AtChunks ==
  {<<>>} \cup {<<<<a>>>> : a \in AtMenu}
         \cup {<<<<a>>, <<b>>>> : a \in AtMenu, b \in AtMenu}
         \cup {<<<<a, b>>>> : a \in AtMenu, b \in AtMenu}
         \cup {<<<<a>>, <<b>>, <<c>>>> : a \in {PromptL, ErrorL}, b \in AtMenu, c \in {OkL}}

\* send_at(cmd) is called by the running operation.
\* pseen: the prompt was in the buffer of the prompt wait.
NoAtRet == [op |-> "init", prompt |-> "none", raw |-> FALSE, ret |-> "none",
            ok |-> FALSE, perr |-> FALSE, fin |-> "none", wrote |-> FALSE,
            pseen |-> FALSE]

SendAtCall(mode, chunks) ==
  /\ \E r \in {send_at(Reads(uart, chunks), mode.prompt, mode.has_data, mode.raw)} :
        /\ uart' = Flatten(r.rest)
        /\ last_has_uusocl' = HasMarker(r.last, "+UUSOCL:")
        /\ at_ret' = [op |-> "send_at", prompt |-> mode.prompt, raw |-> mode.raw,
                      ret |-> r.ret, ok |-> SendAtSucceeded(r), perr |-> r.perr,
                      fin |-> r.fin, wrote |-> r.wrote,
                      pseen |-> /\ mode.prompt # "none"
                                /\ HasMarker(wait_response(Reads(uart, chunks),
                                                           mode.prompt).buffer,
                                             mode.prompt)]
  /\ UNCHANGED <<sock_num, socket_state, wait_state, rx_buffer, rx_pending,
                 m_sock_num, m_rx_buffer, modem_socks, next_byte, arrived,
                 delivered, live, stale, swallowed, sk_last>>
  /\ UNCHANGED <<fsmVars, sendVars, connVars>>

\* ---------------------------------------------------------------------
\* SaraR socket API and MicroSocket (ublox_sara_r.py, micro_socket.py)
\* ---------------------------------------------------------------------

\* AT commands of the socket layer, as logged per operation.
AtCmd(name, s) == [cmd |-> name, sock |-> s]

\* Socket ids named by the lines of a buffer.
LineSocks(buffer, tag) ==
  {buffer[i].sock : i \in {j \in 1..Len(buffer) : buffer[j].tag = tag}}

\* Sockets for which a buffer holds a +UUSORD announcing data.
DataUrcSocks(buffer) ==
  {buffer[i].sock : i \in {j \in 1..Len(buffer) :
                              buffer[j].tag = "+UUSORD:" /\ buffer[j].n > 0}}

\* The state an operation of the socket layer threads through its calls:
\* the program's fields (sock_num, rx, pending, last; last is meaningful
\* once the operation has waited for a response), the environment (uart,
\* socks, nb) and the observations (cmds, arr, live, stale, swallowed,
\* reclose, uusocl).
World ==
  [sock_num |-> sock_num, rx |-> rx_buffer, pending |-> rx_pending,
   last |-> <<>>, uart |-> uart, socks |-> modem_socks,
   nb |-> next_byte, cmds |-> {}, arr |-> arrived, live |-> live,
   stale |-> stale, swallowed |-> swallowed, reclose |-> 0, uusocl |-> FALSE,
   waited |-> FALSE]

\* A plain send_at(cmd) of the socket layer, the modem answering with chunks.
\* Every +UUSORD line the wait reads is consumed by it; a +UUSOCL line it
\* reads has been received by the host.
Command(w, cmd, chunks) ==
  LET Answered(r) ==
        [ok |-> r.ret = "true",
         w |-> [w EXCEPT !.uart = Flatten(r.rest),
                         !.last = r.last,
                         !.waited = TRUE,
                         !.cmds = @ \cup {cmd},
                         !.swallowed = @ \cup DataUrcSocks(r.last),
                         !.live = @ \ LineSocks(r.last, "+UUSOCL:")]]
  IN Answered(send_at(Reads(w.uart, chunks), "none", FALSE, FALSE))

\* How the modem may treat a command.  A close is always carried out: with
\* "timeout" its OK does not arrive in time.
CloseChoices == {"done", "timeout"}
CreateChoices == {"done", "error", "timeout"}
ConnectChoices == {"done", "error", "timeout", "closed_ok", "closed_then_ok"}
ReadChoices == {"data", "data_closed", "error"}

\* socket_close(sock_num)
socket_close_op(w, id, choice) ==
  LET chunks == IF choice = "timeout" THEN <<>>
                ELSE IF id \in w.socks THEN <<<<OkL>>>> ELSE <<<<ErrorL>>>>
      w1 == [w EXCEPT !.socks = @ \ {id},
                      !.reclose = IF id \in w.stale THEN @ + 1 ELSE @]
      c == Command(w1, AtCmd("USOCL", id), chunks)
  IN [c.w EXCEPT !.pending = @ \cup {id},
                 !.stale = @ \cup {id},
                 !.live = @ \ {id}]

\* _parse_socket_id: the id of the first +USOCR: line, -1 without one.
RECURSIVE ParseSocketIdFrom(_, _)
ParseSocketIdFrom(resp, i) ==
  IF i > Len(resp) THEN -1
  ELSE IF resp[i].tag = "+USOCR:" THEN resp[i].sock
  ELSE ParseSocketIdFrom(resp, i + 1)

parse_socket_id(resp) == IF resp = <<>> THEN -1 ELSE ParseSocketIdFrom(resp, 1)

Sids == 0..(NumSockets - 1)

\* The modem hands out its lowest free socket id, if it has one.
FreeIds(socks) == {id \in Sids \ socks : \A other \in Sids \ socks : id <= other}

\* socket_create()
socket_create_op(w, choice) ==
  LET free == FreeIds(w.socks)
      made == choice = "done" /\ free # {}
      id == IF made THEN CHOOSE i \in free : TRUE ELSE -1
      chunks == IF choice = "timeout" THEN <<>>
                ELSE IF made THEN <<<<UsocrL(id), OkL>>>> ELSE <<<<ErrorL>>>>
      w1 == [w EXCEPT !.socks = IF made THEN @ \cup {id} ELSE @]
      Created(cw, got) ==
        [id |-> got,
         w |-> IF got >= 0
               THEN [cw EXCEPT !.live = @ \cup {got}, !.stale = {}]
               ELSE cw]
      Parsed(c) == Created(c.w, IF c.ok THEN parse_socket_id(c.w.last) ELSE -1)
  IN Parsed(Command(w1, AtCmd("USOCR", -1), chunks))

\* socket_connect(sock_num, host, port)
socket_connect_op(w, id, choice, cl) ==
  LET up == id \in w.socks
      chunks == CASE choice = "timeout" -> <<>>
                  [] ~up \/ choice = "error" -> <<<<ErrorL>>>>
                  [] choice = "closed_ok" -> <<<<UusoclL(id), OkL>>>>
                  [] choice = "closed_then_ok" -> <<<<UusoclL(id)>>, <<OkL>>>>
                  [] OTHER -> <<<<OkL>>>>
      w1 == [w EXCEPT !.socks = IF up /\ choice \in {"closed_ok", "closed_then_ok"}
                                THEN @ \ {id} ELSE @]
      Connected(ok, w2) ==
        IF ~ok
        THEN [ok |-> FALSE, w |-> socket_close_op(w2, id, cl)]
        ELSE [ok |-> TRUE, w |-> [w2 EXCEPT !.sock_num = id]]
      Answered(c) ==
        Connected(c.ok, [c.w EXCEPT !.uusocl = HasMarker(c.w.last, "+UUSOCL:")])
  IN Answered(Command(w1, AtCmd("USOCO", id), chunks))

\* bytearray slicing: buf[:size] and buf[size:] for size >= 0.
TakeMut(b, size) == SubSeq(b, Len(b) - Min(size, Len(b)) + 1, Len(b))
Take(b, size) == SubSeq(b, 1, Min(size, Len(b)))
Drop(b, size) == SubSeq(b, Min(size, Len(b)) + 1, Len(b))

\* extract_usord_data: the quoted data of the first +USORD: line (None is
\* modelled as the empty payload; both are skipped by "if payload").
RECURSIVE ExtractFrom(_, _)
ExtractFrom(resp, i) ==
  IF i > Len(resp) THEN <<>>
  ELSE IF resp[i].tag = "+USORD:" THEN resp[i].data
  ELSE ExtractFrom(resp, i + 1)

extract_usord_data(resp) == ExtractFrom(resp, 1)

\* The next k bytes of the stream the peer sends.
Fresh(nb, k) == [i \in 1..k |-> nb + i]

\* _handle_uusord, one +UUSORD: line for the expected socket: AT+USORD and
\* the payload appended to _rx_buffer.  The modem hands over at most the
\* announced length and no more than the stream still holds.
handle_line(w, s, n, choice) ==
  LET k == IF choice \in {"data", "data_closed"} /\ s \in w.socks
           THEN Min(n, MaxBytes - w.nb) ELSE 0
      data == Fresh(w.nb, k)
      chunks == CASE choice = "error" \/ s \notin w.socks -> <<<<ErrorL>>>>
                  [] choice = "data_closed" -> <<<<UsordL(s, data), UusoclL(s), OkL>>>>
                  [] OTHER -> <<<<UsordL(s, data), OkL>>>>
      w1 == [w EXCEPT !.nb = @ + k,
                      !.socks = IF choice = "data_closed" THEN @ \ {s} ELSE @,
                      !.swallowed = @ \ {s}]
      Stored(cw, payload) ==
        [ok |-> HasMarker(cw.last, "OK"),
         closed |-> HasMarker(cw.last, "+UUSOCL:"),
         w |-> [cw EXCEPT !.rx = @ \o payload, !.arr = @ \o payload]]
      Answered(c) ==
        IF ~c.ok
        THEN [ok |-> FALSE, closed |-> FALSE, w |-> c.w]
        ELSE Stored(c.w, extract_usord_data(c.w.last))
  IN Answered(Command(w1, AtCmd("USORD", s), chunks))

\* _handle_uusord(decoded, sock_num_expected): the loop over the lines.
RECURSIVE HandleFrom(_, _, _, _, _, _)
HandleFrom(w, decoded, i, expected, choices, flags) ==
  IF i > Len(decoded) THEN [ok |-> flags.ok, closed |-> flags.closed, w |-> w]
  ELSE IF decoded[i].tag = "+UUSORD:" /\ decoded[i].sock = expected
  THEN LET Handled(h) ==
             HandleFrom(h.w, decoded, i + 1, expected, choices,
                        [ok |-> flags.ok \/ h.ok, closed |-> flags.closed \/ h.closed])
       IN Handled(handle_line(w, decoded[i].sock, decoded[i].n, choices[i]))
  ELSE HandleFrom(w, decoded, i + 1, expected, choices, flags)

handle_uusord(w, decoded, expected, choices) ==
  HandleFrom(w, decoded, 1, expected, choices, [ok |-> FALSE, closed |-> FALSE])

\* socket_recv(sock_num, size)
socket_recv_op(w, s, size, choices) ==
  IF w.rx # <<>>
  THEN [data |-> Take(w.rx, size), w |-> [w EXCEPT !.rx = Drop(@, size)]]
  ELSE LET Handled(h) ==
             IF h.ok
             THEN [data |-> Take(h.w.rx, size),
                   w |-> [h.w EXCEPT !.rx = Drop(@, size)]]
             ELSE [data |-> <<>>, w |-> h.w]
           Waited(r, w1) ==
             IF r.kind # "found"
             THEN [data |-> <<>>, w |-> w1]
             ELSE Handled(handle_uusord(w1, r.buffer, s, choices))
           Read(r) ==
             Waited(r, [w EXCEPT !.uart = Flatten(r.rest),
                                 !.last = r.buffer,
                                 !.waited = TRUE,
                                 !.live = @ \ LineSocks(r.buffer, "+UUSOCL:")])
       IN Read(wait_response(Reads(w.uart, <<>>), "+UUSORD:"))

\* wait_response_async(expected, timeout), one call: the wait is opened with
\* the arguments when none is pending, then a single _read(), the test for
\* the expected string of the pending wait and the test of its timeout.
\*   ws   - _wait_state (active = it is not None); age = now - ws.start
\*   ret  - "true", "none" (timeout) or "false" (keep waiting)
\*   last - what it stores in last_response (nothing when ret = "false")
WaitAsyncMut(ws, pending, expected, timeout, age) ==
  LET buffer == (IF ws.active THEN ws.buffer ELSE <<>>) \o pending
      closed == [active |-> FALSE, buffer |-> <<>>, expected |-> "none", timeout |-> 0]
  IN IF HasMarker(buffer, expected)
     THEN [ret |-> "true", last |-> buffer, ws |-> closed]
     ELSE IF ws.active /\ age > timeout
     THEN [ret |-> "none", last |-> buffer, ws |-> closed]
     ELSE [ret |-> "false", last |-> <<>>,
           ws |-> [active |-> TRUE, buffer |-> buffer, expected |-> expected,
                   timeout |-> timeout]]

wait_response_async(ws, pending, expected, timeout, age) ==
  LET st == IF ws.active THEN ws
            ELSE [active |-> TRUE, buffer |-> <<>>, expected |-> expected,
                  timeout |-> timeout]
      elapsed == IF ws.active THEN age ELSE 0
      buffer == st.buffer \o pending
      closed == [active |-> FALSE, buffer |-> <<>>, expected |-> "none", timeout |-> 0]
  IN IF HasMarker(buffer, st.expected)
     THEN [ret |-> "true", last |-> buffer, ws |-> closed]
     ELSE IF elapsed > st.timeout
     THEN [ret |-> "none", last |-> buffer, ws |-> closed]
     ELSE [ret |-> "false", last |-> <<>>, ws |-> [st EXCEPT !.buffer = buffer]]

\* The fields of the socket layer after an operation that ended in world w.
Commit(w) ==
  /\ sock_num' = w.sock_num
  /\ rx_buffer' = w.rx
  /\ rx_pending' = w.pending
  /\ last_has_uusocl' = IF w.waited THEN HasMarker(w.last, "+UUSOCL:")
                         ELSE last_has_uusocl
  /\ uart' = w.uart
  /\ modem_socks' = w.socks
  /\ next_byte' = w.nb
  /\ arrived' = w.arr
  /\ live' = w.live
  /\ stale' = w.stale
  /\ swallowed' = w.swallowed

\* What the last operation of the socket layer was and did.
\*   cmds     - the AT commands it issued
\*   reclose  - AT+USOCL commands issued for sockets already closed
\*   uusocl   - the AT+USOCO response contained +UUSOCL
NoSockLast ==
  [op |-> "init", sock |-> -1, size |-> 0, ret |-> "none", data |-> <<>>,
   cmds |-> {}, reclose |-> 0, uusocl |-> FALSE]

Logged(op, s, size, ret, data, w) ==
  [op |-> op, sock |-> s, size |-> size, ret |-> ret, data |-> data,
   cmds |-> w.cmds, reclose |-> w.reclose, uusocl |-> w.uusocl]

SockInit ==
  /\ sock_num = Unset
  /\ socket_state = "unset"
  /\ wait_state = [active |-> FALSE, buffer |-> <<>>, expected |-> "none",
                   timeout |-> 0]
  /\ rx_buffer = <<>>
  /\ rx_pending = {}
  /\ last_has_uusocl = FALSE
  /\ m_sock_num = -1
  /\ m_rx_buffer = <<>>
  /\ uart = <<>>
  /\ modem_socks = {}
  /\ next_byte = 0
  /\ arrived = <<>>
  /\ delivered = <<>>
  /\ live = {}
  /\ stale = {}
  /\ swallowed = {}
  /\ sk_last = NoSockLast
  /\ at_ret = NoAtRet

\* MicroSocket.connect(host, port)
MicroConnect(cr, co, cl1, cl2) ==
  /\ \E c \in {socket_create_op(World, cr)} :
        IF c.id < 0
        THEN /\ Commit(c.w)
             /\ UNCHANGED m_sock_num
             /\ sk_last' = Logged("connect", -1, 0, "create_failed", <<>>, c.w)
        ELSE \E k \in {socket_connect_op(c.w, c.id, co, cl1)} :
               IF ~k.ok
               THEN \E w3 \in {socket_close_op(k.w, c.id, cl2)} :
                      /\ Commit(w3)
                      /\ UNCHANGED m_sock_num
                      /\ sk_last' = Logged("connect", c.id, 0, "connect_failed", <<>>, w3)
               ELSE /\ Commit(k.w)
                    /\ m_sock_num' = c.id
                    /\ sk_last' = Logged("connect", c.id, 0, "connected", <<>>, k.w)
  /\ UNCHANGED <<socket_state, wait_state, m_rx_buffer, delivered, at_ret>>
  /\ UNCHANGED <<fsmVars, sendVars, connVars>>

\* MicroSocket.close()
MicroClose(cl) ==
  /\ \E w \in {IF m_sock_num >= 0 THEN socket_close_op(World, m_sock_num, cl)
                ELSE World} :
        /\ Commit(w)
        /\ sk_last' = Logged("close", m_sock_num, 0, "none", <<>>, w)
  /\ m_sock_num' = -1
  /\ m_rx_buffer' = <<>>
  /\ UNCHANGED <<socket_state, wait_state, delivered, at_ret>>
  /\ UNCHANGED <<fsmVars, sendVars, connVars>>

\* MicroSocket.poll()
MicroPoll(choices) ==
  /\ \E r \in {socket_recv_op(World, m_sock_num, POLL_SIZE, choices)} :
        /\ Commit(r.w)
        /\ m_rx_buffer' = m_rx_buffer \o r.data
        /\ delivered' = delivered \o r.data
        /\ sk_last' = Logged("poll", m_sock_num, POLL_SIZE,
                             IF r.data # <<>> THEN "true" ELSE "false", r.data, r.w)
  /\ UNCHANGED <<socket_state, wait_state, m_sock_num, at_ret>>
  /\ UNCHANGED <<fsmVars, sendVars, connVars>>

\* MicroSocket.recv(size)
MicroRecv(size) ==
  /\ m_rx_buffer' = Drop(m_rx_buffer, size)
  /\ sk_last' = Logged("recv", m_sock_num, size, "none", Take(m_rx_buffer, size), World)
  /\ UNCHANGED <<sock_num, socket_state, wait_state, rx_buffer, rx_pending,
                 last_has_uusocl, m_sock_num, uart, modem_socks, next_byte,
                 arrived, delivered, live, stale, swallowed, at_ret>>
  /\ UNCHANGED <<fsmVars, sendVars, connVars>>

\* SaraR.socket_recv(sock_num, size)
SocketRecv(s, size, choices) ==
  /\ \E r \in {socket_recv_op(World, s, size, choices)} :
        /\ Commit(r.w)
        /\ delivered' = delivered \o r.data
        /\ sk_last' = Logged("socket_recv", s, size, "none", r.data, r.w)
  /\ UNCHANGED <<socket_state, wait_state, m_sock_num, m_rx_buffer, at_ret>>
  /\ UNCHANGED <<fsmVars, sendVars, connVars>>

\* SaraR.socket_close(sock_num)
SocketClose(s, cl) ==
  /\ \E w \in {socket_close_op(World, s, cl)} :
        /\ Commit(w)
        /\ sk_last' = Logged("socket_close", s, 0, "none", <<>>, w)
  /\ UNCHANGED <<socket_state, wait_state, m_sock_num, m_rx_buffer, delivered, at_ret>>
  /\ UNCHANGED <<fsmVars, sendVars, connVars>>

\* SaraR.socket_connect_step(sock_num, host, port).  __init__ assigns
\* connect_state but never socket_state, so the first read of
\* self.socket_state raises AttributeError.
\*   expired      - wait_response_async ran into its own timeout
\*   step_expired - more than 15000 ms since the step sent AT+USOCO
SocketConnectStep(s, expired, step_expired, cl) ==
  /\ CASE socket_state = "unset" ->
            /\ sk_last' = Logged("connect_step", s, 0, "raised", <<>>, World)
            /\ UNCHANGED <<sock_num, socket_state, wait_state, rx_buffer,
                           rx_pending, last_has_uusocl, uart, modem_socks,
                           next_byte, arrived, live, stale, swallowed>>
       [] socket_state = "idle" ->
            LET w == [World EXCEPT !.cmds = {AtCmd("USOCO", s)}]
            IN /\ Commit(w)
               /\ socket_state' = "usoco_wait"
               /\ sk_last' = Logged("connect_step", s, 0, "none", <<>>, w)
               /\ UNCHANGED wait_state
       [] socket_state = "usoco_wait" ->
            LET a == wait_response_async(wait_state, uart, "OK", ASYNC_TIMEOUT,
                                             IF expired THEN ASYNC_TIMEOUT + 1 ELSE 0)
                closed == IF a.ret = "false" THEN last_has_uusocl
                          ELSE HasMarker(a.last, "+UUSOCL:")
                w == [World EXCEPT !.uart = <<>>, !.last = a.last,
                                   !.waited = a.ret # "false",
                                   !.live = @ \ LineSocks(a.ws.buffer \o a.last, "+UUSOCL:")]
            IN /\ wait_state' = a.ws
               /\ IF a.ret = "true"
                  THEN /\ Commit([w EXCEPT !.sock_num = s])
                       /\ socket_state' = "done"
                       /\ sk_last' = Logged("connect_step", s, 0, "true", <<>>, w)
                  ELSE IF closed \/ step_expired
                  THEN \E w2 \in {socket_close_op(w, s, cl)} :
                         /\ Commit(w2)
                         /\ socket_state' = "idle"
                         /\ sk_last' = Logged("connect_step", s, 0, "false", <<>>, w2)
                  ELSE /\ Commit(w)
                       /\ UNCHANGED socket_state
                       /\ sk_last' = Logged("connect_step", s, 0, "none", <<>>, w)
       [] OTHER ->
            /\ sk_last' = Logged("connect_step", s, 0, "none", <<>>, World)
            /\ UNCHANGED <<sock_num, socket_state, wait_state, rx_buffer,
                           rx_pending, last_has_uusocl, uart, modem_socks,
                           next_byte, arrived, live, stale, swallowed>>
  /\ UNCHANGED <<m_sock_num, m_rx_buffer, delivered, at_ret>>
  /\ UNCHANGED <<fsmVars, sendVars, connVars>>

\* Unsolicited result codes the modem may emit for a socket it has open.
Urcs(socks) ==
  {UusordL(s, n) : s \in socks, n \in 0..MaxUrcLen} \cup {UusoclL(s) : s \in socks}

\* The modem emits a URC; it stays in the UART until something reads.  With
\* +UUSOCL the modem has closed the socket.
UrcArrives(line) ==
  /\ Len(uart) < MaxUart
  /\ line.tag = "+UUSORD:" => next_byte < MaxBytes
  /\ uart' = Append(uart, line)
  /\ modem_socks' = IF line.tag = "+UUSOCL:" THEN modem_socks \ {line.sock}
                    ELSE modem_socks
  /\ sk_last' = [NoSockLast EXCEPT !.op = "urc", !.sock = line.sock]
  /\ UNCHANGED <<sock_num, socket_state, wait_state, rx_buffer, rx_pending,
                 last_has_uusocl, m_sock_num, m_rx_buffer, next_byte,
                 arrived, delivered, live, stale, swallowed, at_ret>>
  /\ UNCHANGED <<fsmVars, sendVars, connVars>>

RecvSizes == 1..MaxRecv

\* One choice of the modem for every line socket_recv(s, ...) answers with
\* AT+USORD: the +UUSORD lines for s pending in the UART when _rx_buffer is
\* empty.
ReadChoiceSeqs(s) ==
  [{i \in 1..Len(uart) : /\ rx_buffer = <<>>
                          /\ uart[i].tag = "+UUSORD:"
                          /\ uart[i].sock = s} -> ReadChoices]

\* The connect choices that matter after a create choice.
ConnectChoicesAfter(cr) == IF cr = "done" THEN ConnectChoices ELSE {"done"}

\* The close choices that matter after a connect choice.
CloseChoicesAfter(co) == IF co = "done" THEN {"done"} ELSE CloseChoices

\* The timeouts that matter to socket_connect_step.
StepExpiries == IF socket_state = "usoco_wait" THEN BOOLEAN ELSE {FALSE}

StepCloseChoices == IF socket_state = "usoco_wait" THEN CloseChoices ELSE {"done"}

SockNext ==
  \/ \E cr \in CreateChoices : \E co \in ConnectChoicesAfter(cr) :
       \E cl1 \in CloseChoicesAfter(co), cl2 \in CloseChoicesAfter(co) :
         MicroConnect(cr, co, cl1, cl2)
  \/ \E cl \in CloseChoices : MicroClose(cl)
  \/ \E choices \in ReadChoiceSeqs(m_sock_num) : MicroPoll(choices)
  \/ \E size \in RecvSizes : MicroRecv(size)
  \/ \E s \in Sids, size \in RecvSizes : \E choices \in ReadChoiceSeqs(s) :
       SocketRecv(s, size, choices)
  \/ \E s \in Sids, cl \in CloseChoices : SocketClose(s, cl)
  \/ \E s \in Sids, expired \in StepExpiries, step_expired \in StepExpiries,
        cl \in StepCloseChoices : SocketConnectStep(s, expired, step_expired, cl)
  \/ \E line \in Urcs(modem_socks) : UrcArrives(line)

\* ---------------------------------------------------------------------
\* Modem queries: MicroModem.get_imsi, SaraR.get_time, SaraR.initialize
\* ---------------------------------------------------------------------

\* Reply lines of the queries: a "digits" line is a line of n digits; a
\* "+CME ERROR" line with n = 1 reads "+CME ERROR: SIM failure"; the data of
\* a +CCLK: line is <<yy, MM, dd, HH, mm, ss>>.

\* get_imsi, the retry loop from attempt i on: u is what is pending in the
\* UART, replies[i] what the modem sends during attempt i.  sim and digits
\* record whether a response read so far held the phrase "SIM failure" or
\* a line of at least 15 digits.
RECURSIVE ImsiAttempts(_, _, _, _, _, _)
ImsiAttempts(u, replies, i, lr, sim, digits) ==
  IF i > IMSI_RETRY
  THEN [ret |-> "UNKNOWN_IMSI", uart |-> u, last |-> lr, sim |-> sim,
        digits |-> digits, tries |-> IMSI_RETRY]
  ELSE LET \* "SIM failure" in s
           HasSimFailure(line) ==
             \/ line.tag = "SIM failure"
             \/ line.tag = "+CME ERROR" /\ line.n = 1
           \* s.isdigit() and len(s) >= 15
           IsImsi(line) == line.tag = "digits" /\ line.n >= 15
           After(r, hits) ==
             LET sim2 == sim \/ \E k \in 1..Len(r.last) : HasSimFailure(r.last[k])
                 digits2 == digits \/ \E k \in 1..Len(r.last) : IsImsi(r.last[k])
             IN IF r.ret = "true" /\ hits # {}
                THEN [ret |-> IF IsImsi(r.last[CHOOSE k \in hits : \A j \in hits : k <= j])
                              THEN "IMSI" ELSE "SIM_FAIL",
                      uart |-> Flatten(r.rest), last |-> r.last, sim |-> sim2,
                      digits |-> digits2, tries |-> i]
                ELSE ImsiAttempts(Flatten(r.rest), replies, i + 1, r.last,
                                  sim2, digits2)
           Sent(r) ==
             After(r, {k \in 1..Len(r.last) :
                         IsImsi(r.last[k]) \/ HasSimFailure(r.last[k])})
       IN Sent(send_at(Reads(u, replies[i]), "none", FALSE, FALSE))

\* What the modem may send during one AT+CIMI attempt.
ImsiChunks ==
  {<<>>,
   <<<<AtLine("digits", -1, 15, <<>>), OkL>>>>,
   <<<<AtLine("digits", -1, 14, <<>>), OkL>>>>,
   <<<<AtLine("SIM failure", -1, 0, <<>>), OkL>>>>,
   <<<<AtLine("+CME ERROR", -1, 1, <<>>)>>>>,
   <<<<ErrorL>>>>}

\* get_imsi()
GetImsi(replies) ==
  /\ IF imsi # ""
     THEN /\ at_ret' = [op |-> "get_imsi", ret |-> imsi, sim |-> FALSE,
                        digits |-> FALSE, tries |-> 0]
          /\ UNCHANGED <<imsi, uart, last_has_uusocl>>
     ELSE \E g \in {ImsiAttempts(uart, replies, 1, <<>>, FALSE, FALSE)} :
            /\ imsi' = g.ret
            /\ uart' = g.uart
            /\ last_has_uusocl' = HasMarker(g.last, "+UUSOCL:")
            /\ at_ret' = [op |-> "get_imsi", ret |-> g.ret, sim |-> g.sim,
                          digits |-> g.digits, tries |-> g.tries]
  /\ UNCHANGED <<sock_num, socket_state, wait_state, rx_buffer, rx_pending,
                 m_sock_num, m_rx_buffer, modem_socks, next_byte, arrived,
                 delivered, live, stale, swallowed, sk_last>>
  /\ UNCHANGED <<connect_state, connect_elapsed, modem_model, wait_age,
                 c_pending, c_answered, c_seen, c_sent, c_last>>
  /\ UNCHANGED <<fsmVars, sendVars>>

\* get_time: the quoted timestamp of the first +CCLK: line of the response,
\* <<>> without one.
FirstCclk(resp) ==
  LET found == {k \in 1..Len(resp) : resp[k].tag = "+CCLK:"}
  IN IF found = {} THEN <<>>
     ELSE resp[CHOOSE k \in found : \A j \in found : k <= j].data

\* get_time, after send_at(b'AT+CCLK?') returned ok with response resp:
\* year 2000 + yy, the hour shifted for R410.  <<>> is None.
get_time(model, ok, resp) ==
  LET Parsed(t) ==
        IF t = <<>> THEN <<>>
        ELSE <<FULL_YEAR_BASE + t[1], t[2], t[3],
               IF model = "R410" THEN (t[4] + JST_OFFSET) % 24 ELSE t[4],
               t[5], t[6]>>
  IN IF ~ok THEN <<>> ELSE Parsed(FirstCclk(resp))

\* What the modem may send during get_time.  The timestamps it reports are
\* the first and the last day of a year, at the hours on both sides of the
\* point where hour + 9 reaches 24.
TimeChunks ==
  LET Stamps == {<<24, d[1], d[2], hh, 30, 59>> :
                   d \in {<<1, 1>>, <<12, 31>>}, hh \in {0, 14, 15, 23}}
  IN {<<>>, <<<<ErrorL>>>>}
       \cup {<<<<AtLine("+CCLK:", -1, 0, t), OkL>>>> : t \in Stamps}

\* get_time()
GetTime(chunks) ==
  /\ \E r \in {send_at(Reads(uart, chunks), "none", FALSE, FALSE)} :
       /\ uart' = Flatten(r.rest)
       /\ last_has_uusocl' = HasMarker(r.last, "+UUSOCL:")
       /\ at_ret' = [op |-> "get_time", model |-> modem_model,
                     reported |-> FirstCclk(r.last),
                     ret |-> get_time(modem_model, r.ret = "true", r.last)]
  /\ UNCHANGED <<sock_num, socket_state, wait_state, rx_buffer, rx_pending,
                 m_sock_num, m_rx_buffer, modem_socks, next_byte, arrived,
                 delivered, live, stale, swallowed, sk_last>>
  /\ UNCHANGED connVars
  /\ UNCHANGED <<fsmVars, sendVars>>

\* initialize(), called before the connection sequence is started, with a
\* modem that answers AT, ATI and AT+CFUN=0: the model is taken from the ATI
\* response, and what was pending in the UART has been read.
Initialize(model) ==
  /\ modem_model = "Generic"
  /\ connect_state = "idle"
  /\ c_pending = <<>>
  /\ modem_model' = model
  /\ uart' = <<>>
  /\ last_has_uusocl' = FALSE
  /\ UNCHANGED <<sock_num, socket_state, wait_state, rx_buffer, rx_pending,
                 m_sock_num, m_rx_buffer, modem_socks, next_byte, arrived,
                 delivered, live, stale, swallowed, sk_last, at_ret>>
  /\ UNCHANGED <<connect_state, connect_elapsed, imsi, wait_age,
                 c_pending, c_answered, c_seen, c_sent, c_last>>
  /\ UNCHANGED <<fsmVars, sendVars>>

AtNext ==
  \/ \E mode \in AtModes, chunks \in AtChunks : SendAtCall(mode, chunks)
  \/ \E replies \in [1..IMSI_RETRY -> ImsiChunks] : GetImsi(replies)
  \/ \E chunks \in TimeChunks : GetTime(chunks)
  \/ \E model \in {"R410", "R510", "Unknown_model"} : Initialize(model)

\* wait_response_async(expected, timeout) is called gap ms after the previous
\* call, when chunk has arrived in the UART.
WaitAsync(expected, timeout, gap, chunk) ==
  /\ \E a \in {wait_response_async(wait_state, uart \o chunk, expected, timeout,
                                    wait_age + gap)} :
       /\ wait_state' = a.ws
       /\ wait_age' = IF ~a.ws.active \/ ~wait_state.active THEN 0
                      ELSE Min(wait_age + gap, ASYNC_TIMEOUT + 1)
       /\ last_has_uusocl' = IF a.ret = "false" THEN last_has_uusocl
                             ELSE HasMarker(a.last, "+UUSOCL:")
       /\ at_ret' = [op |-> "wait_async", ret |-> a.ret, before |-> wait_state,
                     age |-> wait_age + gap, expected |-> expected,
                     timeout |-> timeout, read |-> uart \o chunk]
       /\ Len(a.ws.buffer) <= MaxUart
  /\ uart' = <<>>
  /\ UNCHANGED <<sock_num, socket_state, rx_buffer, rx_pending, m_sock_num,
                 m_rx_buffer, modem_socks, next_byte, arrived, delivered, live,
                 stale, swallowed, sk_last>>
  /\ UNCHANGED <<connect_state, connect_elapsed, modem_model, imsi,
                 c_pending, c_answered, c_seen, c_sent, c_last>>
  /\ UNCHANGED <<fsmVars, sendVars>>

\* ---------------------------------------------------------------------
\* SaraR.connect_step and disconnect: the connection sequence
\* ---------------------------------------------------------------------

\* SaraR.__init__ and MicroModem.__init__: connect_state "idle",
\* modem_model "Generic", imsi "", no wait open.
NoConnLast == [op |-> "init", from |-> "idle", ret |-> "none", cmds |-> <<>>,
               waited |-> FALSE, timed_out |-> FALSE, open |-> FALSE]

ConnInit ==
  /\ connect_state = "idle"
  /\ connect_elapsed = 0
  /\ modem_model = "Generic"
  /\ imsi = ""
  /\ wait_age = 0
  /\ c_pending = <<>>
  /\ c_answered = {}
  /\ c_seen = {}
  /\ c_sent = <<>>
  /\ c_last = NoConnLast

\* connect_step, the WAIT states: ticks_diff(now, connect_start) > this.
WAIT_TIMEOUT ==
  [umnoprof_wait |-> 20000, r410_cfun15_wait |-> 60000,
   r410_cops2_wait |-> 120000, r410_cgdcont_wait |-> 60000,
   r410_done_wait |-> 20000, r510_cfun16_wait |-> 40000,
   r510_cfun0_wait |-> 40000, r510_cgdcont_wait |-> 20000,
   r510_cfun1_wait |-> 20000, cereg_check_wait |-> 1200,
   cgatt_check_wait |-> 30000, udsd0_wait |-> 20000,
   udsd100_wait |-> 20000, udsda_wait |-> 20000]

\* connect_step, the WAIT states whose handler only sets the next state when
\* wait_response_async("OK") succeeds.
OK_NEXT ==
  [r410_cfun15_wait |-> "r410_cops2_send", r410_cops2_wait |-> "r410_cgdcont_send",
   r410_done_wait |-> "cereg_check_send", r510_cfun16_wait |-> "r510_cfun0_send_wait",
   r510_cfun0_wait |-> "r510_cgdcont_send", r510_cgdcont_wait |-> "r510_cfun1_send",
   r510_cfun1_wait |-> "cereg_check_send", udsd0_wait |-> "udsd100_send",
   udsd100_wait |-> "udsda_send", udsda_wait |-> "done"]

\* connect_step, the states that dispatch one command asynchronously: the
\* command, the state that follows, and the time that must have passed since
\* connect_start (-1: none is asked for).
SEND ==
  [idle |-> [cmd |-> "AT+UMNOPROF=20", next |-> "umnoprof_wait", after |-> -1],
   r410_cfun15_send |-> [cmd |-> "AT+CFUN=15", next |-> "r410_cfun15_wait", after |-> 2000],
   r410_cops2_send |-> [cmd |-> "AT+COPS=2", next |-> "r410_cops2_wait", after |-> 10000],
   r410_cgdcont_send |-> [cmd |-> "AT+CGDCONT IP", next |-> "r410_cgdcont_wait", after |-> -1],
   r510_cfun16_send |-> [cmd |-> "AT+CFUN=16", next |-> "r510_cfun16_wait", after |-> -1],
   r510_cfun0_send |-> [cmd |-> "AT+CFUN=0", next |-> "r510_cfun0_wait", after |-> -1],
   r510_cgdcont_send |-> [cmd |-> "AT+CGDCONT IPV4V6", next |-> "r510_cgdcont_wait", after |-> -1],
   r510_cfun1_send |-> [cmd |-> "AT+CFUN=1", next |-> "r510_cfun1_wait", after |-> -1],
   cereg_check_send |-> [cmd |-> "AT+CEREG?", next |-> "cereg_check_wait", after |-> 1000],
   cgatt_check_send |-> [cmd |-> "AT+CGATT?", next |-> "cgatt_check_wait", after |-> 1000],
   udsd0_send |-> [cmd |-> "AT+UPSD=0,0,0", next |-> "udsd0_wait", after |-> -1],
   udsd100_send |-> [cmd |-> "AT+UPSD=0,100,1", next |-> "udsd100_wait", after |-> -1],
   udsda_send |-> [cmd |-> "AT+UPSDA=0,3", next |-> "udsda_wait", after |-> -1]]

\* The commands of the R510 profile activation.
UPSD == {"AT+UPSD=0,0,0", "AT+UPSD=0,100,1", "AT+UPSDA=0,3"}

\* self.modem_model == "R410"
IsR410Mut(model) == model = "R510"
IsR410(model) == model = "R410"

\* What the modem sends in answer to a command: the answer ends in OK or is
\* an ERROR; AT+CEREG? and AT+CGATT? are answered with their status line
\* first ("+CEREG: 0,<n>", "+CGATT: <n>").
ReplyKinds(cmd) ==
  CASE cmd = "AT+CEREG?" -> {"ok", "ok_roaming", "ok_searching", "error"}
    [] cmd = "AT+CGATT?" -> {"ok", "ok_detached", "error"}
    [] OTHER -> {"ok", "error"}

ConnReply(cmd, kind) ==
  CASE kind = "error" -> <<ErrorL>>
    [] cmd = "AT+CEREG?" ->
         <<AtLine("+CEREG:", -1, CASE kind = "ok" -> 1 [] kind = "ok_roaming" -> 5
                                   [] OTHER -> 2, <<>>), OkL>>
    [] cmd = "AT+CGATT?" ->
         <<AtLine("+CGATT:", -1, IF kind = "ok" THEN 1 ELSE 0, <<>>), OkL>>
    [] OTHER -> <<OkL>>

\* The state one call of connect_step (or disconnect) works on: the fields
\* of the program (state, elapsed = now - connect_start with now read at the
\* start of the call, reset = connect_start was set to now, ws, age, lhu),
\* the environment (uart, pending), the time the call has blocked (dur) and
\* the observations.
ConnWorld(gap) ==
  [state |-> connect_state, elapsed |-> connect_elapsed + gap, reset |-> FALSE,
   ws |-> wait_state, age |-> IF wait_state.active THEN wait_age + gap ELSE 0,
   lhu |-> last_has_uusocl, uart |-> uart, pending |-> c_pending, dur |-> 0,
   answered |-> c_answered, seen |-> c_seen, sent |-> c_sent,
   cmds |-> <<>>, waited |-> FALSE, timed_out |-> FALSE, open |-> FALSE,
   ret |-> "false"]

\* _write(cmd + b"\r\n"): the command reaches the modem.
Dispatch(w, cmd) ==
  [w EXCEPT !.pending = Append(@, cmd),
            !.cmds = Append(@, cmd),
            !.sent = IF @ # <<>> /\ @[Len(@)] = cmd THEN @ ELSE Append(@, cmd),
            !.open = IF w.cmds = <<>> THEN w.ws.active ELSE @]

\* send_at(cmd, timeout) in synchronous mode.  The modem answers its oldest
\* unanswered command with a reply of the given kind, or nothing arrives
\* before the timeout ("silent").
SyncSend(w, cmd, kind, timeout) ==
  LET w1 == Dispatch(w, cmd)
      head == Head(w1.pending)
      silent == kind = "silent" \/ kind \notin ReplyKinds(head)
      Answered(r) ==
        [ok |-> r.ret = "true",
         w |-> [w1 EXCEPT !.uart = Flatten(r.rest),
                          !.lhu = HasMarker(r.last, "+UUSOCL:"),
                          !.pending = IF silent THEN @ ELSE Tail(@),
                          !.answered = IF ~silent /\ kind # "error"
                                       THEN @ \cup ({head} \cap UPSD) ELSE @,
                          !.dur = @ + IF r.fin = "timeout" THEN timeout ELSE 0]]
  IN Answered(send_at(Reads(w.uart, IF silent THEN <<>>
                                    ELSE <<ConnReply(head, kind)>>),
                      "none", FALSE, FALSE))

\* wait_response_async("OK"), one call.
AsyncWait(w) ==
  LET Checked(a) ==
        [ret |-> a.ret, last |-> a.last,
         w |-> [w EXCEPT !.ws = a.ws,
                         !.age = IF a.ws.active THEN @ ELSE 0,
                         !.uart = <<>>,
                         !.lhu = IF a.ret = "false" THEN @
                                 ELSE HasMarker(a.last, "+UUSOCL:"),
                         !.waited = TRUE]]
  IN Checked(wait_response_async(w.ws, w.uart, "OK", ASYNC_TIMEOUT, w.age))

\* disconnect(): sleep 1 s, AT+CFUN=0 with a timeout of 30 s, then
\* connect_state = "idle" whatever the outcome.
disconnect(w, kind) ==
  LET Sent(s) == [s.w EXCEPT !.state = "idle", !.dur = @ + 1000]
  IN Sent(SyncSend(w, "AT+CFUN=0", kind, 30000))

\* connect_step(apn, user, key, pdp), one call; kind is what the modem does
\* during a synchronous send_at of the call.
connect_step(w, model, kind) ==
  LET Goto(x, s) == [x EXCEPT !.state = s, !.elapsed = 0, !.reset = TRUE]
      Registered(resp) ==
        \E k \in 1..Len(resp) : resp[k].tag = "+CEREG:" /\ resp[k].n \in {1, 5}
      Attached(resp) ==
        \E k \in 1..Len(resp) : resp[k].tag = "+CGATT:" /\ resp[k].n = 1
      Auth(s) ==
        IF ~s.ok THEN s.w
        ELSE Goto(Dispatch(s.w, "AT+COPS=0"), "r410_done_wait")
      OnOk(x, resp) ==
        CASE w.state = "umnoprof_wait" ->
               Goto(x, IF IsR410(model) THEN "r410_cfun15_send" ELSE "r510_cfun16_send")
          [] w.state = "r410_cgdcont_wait" ->
               Auth(SyncSend(x, "AT+UAUTHREQ", kind, 5000))
          [] w.state = "cereg_check_wait" ->
               IF Registered(resp)
               THEN Goto([x EXCEPT !.seen = @ \cup {"cereg"}], "cgatt_check_send")
               ELSE Goto(x, "cereg_check_send")
          [] w.state = "cgatt_check_wait" ->
               IF Attached(resp)
               THEN IF IsR410(model)
                    THEN [x EXCEPT !.state = "done", !.seen = @ \cup {"cgatt"}]
                    ELSE Goto([x EXCEPT !.seen = @ \cup {"cgatt"}], "udsd0_send")
               ELSE Goto(x, "cgatt_check_send")
          [] OTHER -> Goto(x, OK_NEXT[w.state])
      OnTimeout(x) ==
        CASE w.state = "umnoprof_wait" ->
               [disconnect(x, kind) EXCEPT !.timed_out = TRUE]
          [] w.state = "r410_cops2_wait" ->
               [x EXCEPT !.state = "r410_cops2_send", !.timed_out = TRUE]
          [] w.state = "cereg_check_wait" ->
               [x EXCEPT !.state = "cereg_check_send", !.timed_out = TRUE]
          [] OTHER -> [x EXCEPT !.timed_out = TRUE]
      Waited(a) ==
        IF a.ret = "true" THEN OnOk(a.w, a.last)
        ELSE IF w.elapsed > WAIT_TIMEOUT[w.state] THEN OnTimeout(a.w)
        ELSE a.w
  IN CASE w.state = "idle" ->
            Goto([Dispatch(w, SEND.idle.cmd) EXCEPT
                     !.answered = {}, !.seen = {}, !.sent = <<SEND.idle.cmd>>],
                 SEND.idle.next)
       [] w.state = "r510_cfun0_send_wait" ->
            IF w.elapsed > 10000 THEN [w EXCEPT !.state = "r510_cfun0_send"] ELSE w
       [] w.state \in DOMAIN SEND \ {"idle"} ->
            IF w.elapsed > SEND[w.state].after
            THEN Goto(Dispatch(w, SEND[w.state].cmd), SEND[w.state].next)
            ELSE w
       [] w.state \in DOMAIN WAIT_TIMEOUT -> Waited(AsyncWait(w))
       [] w.state = "done" -> [w EXCEPT !.ret = "true"]
       [] OTHER -> w

\* The fields after a call that ended in world w.  now - connect_start and
\* the age of the open wait are kept up to just past the largest value the
\* new state compares them with.
ConnCommit(op, from, w) ==
  LET limit == CASE w.state \in DOMAIN WAIT_TIMEOUT -> WAIT_TIMEOUT[w.state] + 1
                 [] w.state = "r510_cfun0_send_wait" -> 10001
                 [] w.state \in DOMAIN SEND -> SEND[w.state].after + 1
                 [] OTHER -> 0
      after == (IF w.reset THEN 0 ELSE w.elapsed) + w.dur
  IN /\ Len(w.pending) <= MaxPending
     /\ connect_state' = w.state
     /\ connect_elapsed' = IF after < limit THEN after ELSE limit
     /\ wait_state' = w.ws
     /\ wait_age' = IF ~w.ws.active THEN 0
                    ELSE IF w.age + w.dur <= ASYNC_TIMEOUT THEN w.age + w.dur
                    ELSE ASYNC_TIMEOUT + 1
     /\ last_has_uusocl' = w.lhu
     /\ uart' = w.uart
     /\ c_pending' = w.pending
     /\ c_answered' = w.answered
     /\ c_seen' = w.seen
     /\ c_sent' = w.sent
     /\ c_last' = [op |-> op, from |-> from, ret |-> w.ret, cmds |-> w.cmds,
                   waited |-> w.waited, timed_out |-> w.timed_out,
                   open |-> w.open]
     /\ UNCHANGED <<sock_num, socket_state, rx_buffer, rx_pending, m_sock_num,
                    m_rx_buffer, modem_socks, next_byte, arrived, delivered,
                    live, stale, swallowed, sk_last, at_ret>>
     /\ UNCHANGED <<modem_model, imsi>>
     /\ UNCHANGED <<fsmVars, sendVars>>

\* connect_step is called gap ms after the previous call.
ConnectStep(gap, kind) ==
  \E w \in {connect_step(ConnWorld(gap), modem_model, kind)} :
    ConnCommit("connect_step", connect_state, w)

\* The modem answers its oldest unanswered command.
ModemAnswers(kind) ==
  /\ c_pending # <<>>
  /\ kind \in ReplyKinds(Head(c_pending))
  /\ uart' = uart \o ConnReply(Head(c_pending), kind)
  /\ c_pending' = Tail(c_pending)
  /\ c_answered' = IF kind = "error" THEN c_answered
                   ELSE c_answered \cup ({Head(c_pending)} \cap UPSD)
  /\ c_last' = [NoConnLast EXCEPT !.op = "modem", !.from = connect_state]
  /\ UNCHANGED <<sock_num, socket_state, wait_state, rx_buffer, rx_pending,
                 last_has_uusocl, m_sock_num, m_rx_buffer, modem_socks,
                 next_byte, arrived, delivered, live, stale, swallowed,
                 sk_last, at_ret>>
  /\ UNCHANGED <<connect_state, connect_elapsed, modem_model, imsi, wait_age,
                 c_seen, c_sent>>
  /\ UNCHANGED <<fsmVars, sendVars>>

\* connect_step is called at once, a second or MaxGap seconds after the
\* previous call; a synchronous send_at of the call is answered with OK, with
\* ERROR or not at all.  Between calls the modem answers as it chooses.
ConnNext ==
  \/ \E model \in {"R410", "R510"} : Initialize(model)
  \/ \E gap \in {0, 1000, 1000 * MaxGap}, kind \in {"ok", "error", "silent"} :
       ConnectStep(gap, kind)
  \/ \E kind \in {"ok", "ok_roaming", "ok_searching", "ok_detached", "error"} :
       ModemAnswers(kind)

\* A modem that answers every command with OK, AT+CEREG? with "+CEREG: 0,1"
\* and AT+CGATT? with "+CGATT: 1", before connect_step is called again.
HappyStep(gap) == c_pending = <<>> /\ ConnectStep(gap, "ok")

HappyNext ==
  \/ \E model \in {"R410", "R510"} : Initialize(model)
  \/ \E gap \in {0, 1000} : HappyStep(gap)
  \/ ModemAnswers("ok")

\* ---------------------------------------------------------------------
\* SoracomHarvestFiles (soracom_harvest_files.py)
\* ---------------------------------------------------------------------

\* HTTP responses read_response may hand back, as lists of leading tokens;
\* <<>> is b"".
Responses == {<<>>,
              <<"HTTP/1.1", "200", "OK">>,
              <<"HTTP/1.1", "201">>,
              <<"HTTP/1.1", "404">>}

\* bytes.startswith
StartsWith(resp, prefix) ==
  /\ Len(resp) >= Len(prefix)
  /\ \A i \in 1..Len(prefix) : resp[i] = prefix[i]

\* HF_DONE: the response counts as success.
ResponseOK(resp) ==
  \/ StartsWith(resp, <<"HTTP/1.1", "200">>)
  \/ StartsWith(resp, <<"HTTP/1.1", "201">>)

NoLast == [op |-> "init", from |-> HF_IDLE, ret |-> "none", note |-> "none",
           sent |-> 0]

Init ==
  /\ state = HF_IDLE
  /\ filename = 0
  /\ file = "none"
  /\ filesize = 0
  /\ buf = 0
  /\ buf_offset = 0
  /\ sent_bytes = 0
  /\ retry = 0
  /\ header_retry = 0
  /\ next_time = 0
  /\ last_response = <<>>
  /\ msock_num = -1
  /\ sara_sock_num = Unset
  /\ modem_open = {}
  /\ fpos = 0
  /\ clock = 0
  /\ last = NoLast
  /\ at_log = {}
  /\ open_fails = 0
  /\ send_fails = 0
  /\ stat_size = -1
  /\ file_opened = FALSE
  /\ verdict = "none"
  /\ SendIdle
  /\ SockInit
  /\ ConnInit

\* start(): the call is accepted in this state.
StartAllowedMut(s) == TRUE
StartAllowed(s) == s = HF_IDLE

\* start(filename)
start(f) ==
  /\ IF StartAllowed(state)
     THEN /\ filename' = f
          /\ sent_bytes' = 0
          /\ state' = HF_PREPARE
          /\ last' = [NoLast EXCEPT !.op = "start", !.from = state, !.ret = "true"]
          /\ at_log' = {}
          /\ open_fails' = 0
          /\ stat_size' = -1
          /\ file_opened' = FALSE
          /\ verdict' = "none"
     ELSE /\ UNCHANGED <<filename, sent_bytes, state>>
          /\ last' = [NoLast EXCEPT !.op = "start", !.from = state, !.ret = "false"]
          /\ UNCHANGED <<at_log, open_fails, stat_size, file_opened, verdict>>
  /\ UNCHANGED <<file, filesize, buf, buf_offset, retry, header_retry,
                 next_time, last_response, msock_num, sara_sock_num,
                 modem_open, fpos, clock, send_fails>>
  /\ UNCHANGED <<sendVars, sockVars, connVars>>

\* is_busy()
is_busy == state # HF_IDLE

\* Values utime.time() may return in the next tick: the clock never runs
\* backwards.
NowChoices == {t \in {clock, clock + 60, clock + 300} : t <= MaxClock}

Ticked(from, now, note) ==
  [NoLast EXCEPT !.op = "tick", !.from = from, !.note = note]

\* tick(), state HF_IDLE
TickIdle(now) ==
  /\ state = HF_IDLE
  /\ clock' = now
  /\ last' = Ticked(state, now, "idle")
  /\ UNCHANGED <<state, filename, file, filesize, buf, buf_offset, sent_bytes,
                 retry, header_retry, next_time, last_response, msock_num,
                 sara_sock_num, modem_open, fpos, at_log, open_fails,
                 send_fails, stat_size, file_opened, verdict>>
  /\ UNCHANGED <<sendVars, sockVars, connVars>>

\* What one stat + open attempt of HF_PREPARE runs into.
AttemptOutcomes == {"stat_err", "open_err", "ok"}

\* HF_PREPARE: the stat'ed size counts as an empty file.
EmptyFileMut(size) == size < 0
EmptyFile(size) == size <= 0

\* The loop of HF_PREPARE with the OSError of open() swallowed: the FSM goes
\* on to HF_OPEN without a file.
RECURSIVE PrepareLoopMut(_, _, _, _)
PrepareLoopMut(outs, i, fsz, size) ==
  IF i > PREPARE_ATTEMPTS
  THEN [state |-> HF_WAIT, file |-> "none", filesize |-> fsz]
  ELSE IF outs[i] = "stat_err"
  THEN PrepareLoopMut(outs, i + 1, fsz, size)
  ELSE IF EmptyFile(size)
  THEN [state |-> HF_DONE, file |-> "none", filesize |-> size]
  ELSE IF outs[i] = "open_err"
  THEN [state |-> HF_OPEN, file |-> "none", filesize |-> size]
  ELSE [state |-> HF_OPEN, file |-> "open", filesize |-> size]

\* HF_PREPARE, the stat & open loop from attempt i on; fsz is self.filesize
\* so far, size what os.stat reports.
RECURSIVE PrepareLoop(_, _, _, _)
PrepareLoop(outs, i, fsz, size) ==
  IF i > PREPARE_ATTEMPTS
  THEN [state |-> HF_WAIT, file |-> "none", filesize |-> fsz]
  ELSE IF outs[i] = "stat_err"
  THEN PrepareLoop(outs, i + 1, fsz, size)
  ELSE IF EmptyFile(size)
  THEN [state |-> HF_DONE, file |-> "none", filesize |-> size]
  ELSE IF outs[i] = "open_err"
  THEN PrepareLoop(outs, i + 1, size, size)
  ELSE [state |-> HF_OPEN, file |-> "open", filesize |-> size]

\* Every attempt of the loop raised OSError (open is not reached for an
\* empty file).
AllRaise(outs, size) ==
  \A i \in 1..PREPARE_ATTEMPTS :
    \/ outs[i] = "stat_err"
    \/ outs[i] = "open_err" /\ size > 0

\* What the loop of HF_PREPARE can come to in the current state, over all
\* outcomes of its stat + open attempts.
PrepareRunsOf(fsz, size) ==
  {[result |-> PrepareLoop(outs, 1, fsz, size),
    exhausted |-> AllRaise(outs, size)] :
     outs \in [1..PREPARE_ATTEMPTS -> AttemptOutcomes]}

MaxSize == DiskSize(NumFiles)

PrepareTable ==
  [fsz \in 0..MaxSize |-> [size \in 0..MaxSize |-> PrepareRunsOf(fsz, size)]]

PrepareRuns == PrepareTable[filesize][DiskSize(filename)]

\* Outcomes of file.close(): it returns, or raises with the handle either
\* released or still open.
CloseOutcomes == {"ok", "raise_open", "raise_closed"}

CloseRaises(f, out) == f = "open" /\ out # "ok"

HandleAfterClose(f, out) ==
  IF f = "open" THEN (IF out = "raise_open" THEN "open" ELSE "closed") ELSE f

\* tick(), state HF_PREPARE.  A file object still held is closed and dropped
\* first (file = None whatever close() does), then the loop runs.
TickPrepare(now, r, exhausted) ==
  /\ state = HF_PREPARE
  /\ LET size == DiskSize(filename)
     IN /\ state' = r.state
        /\ file' = r.file
        /\ filesize' = r.filesize
        /\ next_time' = IF r.state = HF_WAIT THEN now + WAIT_PREPARE ELSE next_time
        /\ fpos' = IF r.file = "open" THEN 0 ELSE fpos
        /\ stat_size' = IF r.state = HF_WAIT THEN stat_size ELSE size
        /\ file_opened' = (file_opened \/ r.file = "open")
        /\ last' = Ticked(state, now,
                          IF exhausted THEN "exhausted" ELSE "stat_ok")
  /\ clock' = now
  /\ UNCHANGED <<filename, buf, buf_offset, sent_bytes, retry, header_retry,
                 last_response, msock_num, sara_sock_num, modem_open, at_log,
                 open_fails, send_fails, verdict>>
  /\ UNCHANGED <<sendVars, sockVars, connVars>>

\* MicroSocket.close(): AT+USOCL for the socket it holds, sock_num = -1.
SockClose(num, open) ==
  [msock |-> -1,
   open |-> IF num >= 0 THEN open \ {num} ELSE open,
   at |-> IF num >= 0 THEN {"USOCL"} ELSE {}]

\* _post(): http.connect + http.send_header.
\*   cr - id of +USOCR, or -1 when socket_create fails
\*   co - AT+USOCO succeeds
\*   hs - what socket_send returns for the header block
Post(cr, co, hs) ==
  IF cr < 0
  THEN [ok |-> FALSE, note |-> "connect_fail", msock |-> msock_num,
        sara |-> sara_sock_num, open |-> modem_open, at |-> {"USOCR"}]
  ELSE IF ~co
  THEN \* SaraR.socket_connect and MicroSocket.connect both close the socket
       [ok |-> FALSE, note |-> "connect_fail", msock |-> msock_num,
        sara |-> sara_sock_num, open |-> modem_open \ {cr},
        at |-> {"USOCR", "USOCO", "USOCL"}]
  ELSE IF hs # HEADER_LEN
  THEN LET c == SockClose(cr, modem_open \cup {cr})
       IN [ok |-> FALSE, note |-> "header_fail", msock |-> c.msock,
           sara |-> cr, open |-> c.open,
           at |-> {"USOCR", "USOCO", "USOWR"} \cup c.at]
  ELSE [ok |-> TRUE, note |-> "ok", msock |-> cr, sara |-> cr,
        open |-> modem_open \cup {cr}, at |-> {"USOCR", "USOCO", "USOWR"}]

\* HF_OPEN: the header retries are used up.
HeaderGiveUp(hr) == hr >= HEADER_RETRIES

\* HF_OPEN on success: the new value of sent_bytes.
OpenResetSentMut(sb) == sb
OpenResetSent(sb) == 0

\* tick(), state HF_OPEN
TickOpen(now, cr, co, hs) ==
  /\ state = HF_OPEN
  /\ LET p == Post(cr, co, hs)
     IN /\ msock_num' = p.msock
        /\ sara_sock_num' = p.sara
        /\ modem_open' = p.open
        /\ at_log' = at_log \cup p.at
        /\ last' = Ticked(state, now, p.note)
        /\ IF p.ok
           THEN /\ buf' = 0
                /\ buf_offset' = 0
                /\ sent_bytes' = OpenResetSent(sent_bytes)
                /\ retry' = 0
                /\ state' = HF_SENDING
                /\ open_fails' = 0
                /\ UNCHANGED <<header_retry, next_time>>
           ELSE /\ header_retry' = header_retry + 1
                /\ IF HeaderGiveUp(header_retry + 1)
                   THEN state' = HF_ABORT /\ UNCHANGED next_time
                   ELSE state' = HF_WAIT /\ next_time' = now + WAIT_OPEN
                /\ open_fails' = Min(open_fails + 1, HEADER_RETRIES)
                /\ UNCHANGED <<buf, buf_offset, sent_bytes, retry>>
  /\ send_fails' = 0
  /\ clock' = now
  /\ UNCHANGED <<filename, file, filesize, last_response, fpos, stat_size,
                 file_opened, verdict>>
  /\ UNCHANGED <<sendVars, sockVars, connVars>>

\* Inputs of _post the modem can produce in the current state.
\* The modem hands out its lowest free socket id.
CreateResults ==
  {-1} \cup {id \in SockIds \ modem_open :
               \A other \in SockIds \ modem_open : id <= other}
HeaderResults(cr) == IF cr \in SockIds THEN SendReturnTable[cr][HEADER_LEN] ELSE {-1}

\* HF_SENDING: what file.read(CHUNK_SIZE) returns at read position pos.
ReadChunk(f, pos) == Min(CHUNK_SIZE, DiskSize(f) - pos)

\* _send_chunk(data): what socket_send returns, or 0 when the send raises.
SendChunkResults(n) ==
  {0} \cup (IF sara_sock_num \in SockIds THEN SendReturnTable[sara_sock_num][n]
            ELSE IF sara_sock_num = Unset THEN {} ELSE {-1})

\* HF_SENDING: the failure counter after a send that returned a count > 0.
RetryAfterSentMut(r) == r
RetryAfterSent(r) == 0

\* HF_SENDING: the send retries are used up.
SendGiveUp(r) == r >= SEND_RETRIES

\* tick(), state HF_SENDING, buffer empty and the file exhausted
TickSendingEof(now) ==
  /\ state = HF_SENDING
  /\ buf = 0
  /\ ReadChunk(filename, fpos) = 0
  /\ buf' = 0
  /\ buf_offset' = 0
  /\ state' = HF_CLOSING
  /\ clock' = now
  /\ last' = Ticked(state, now, "eof")
  /\ UNCHANGED <<filename, file, filesize, sent_bytes, retry, header_retry,
                 next_time, last_response, msock_num, sara_sock_num,
                 modem_open, fpos, at_log, open_fails, send_fails, stat_size,
                 file_opened, verdict>>
  /\ UNCHANGED <<sendVars, sockVars, connVars>>

\* tick(), state HF_SENDING, a chunk to send (read now if the buffer is
\* empty); i picks the outcome of _send_chunk for the unsent tail.
TickSending(now, i) ==
  /\ state = HF_SENDING
  /\ LET refill == (buf = 0)
         chunk == IF refill THEN ReadChunk(filename, fpos) ELSE buf
         off == IF refill THEN 0 ELSE buf_offset
         tail == chunk - off
     IN /\ chunk > 0
        /\ i \in SendChunkResults(tail)
        /\ fpos' = IF refill THEN fpos + chunk ELSE fpos
        /\ IF i > 0
           THEN /\ sent_bytes' = sent_bytes + i
                /\ retry' = RetryAfterSent(retry)
                /\ IF off + i >= chunk
                   THEN buf' = 0 /\ buf_offset' = 0
                   ELSE buf' = chunk /\ buf_offset' = off + i
                /\ state' = state
                /\ send_fails' = 0
           ELSE /\ retry' = retry + 1
                /\ buf' = chunk
                /\ buf_offset' = off
                /\ state' = IF SendGiveUp(retry + 1) THEN HF_ABORT ELSE state
                /\ send_fails' = send_fails + 1
                /\ UNCHANGED sent_bytes
        /\ last' = [Ticked(state, now, IF i > 0 THEN "sent" ELSE "send_fail")
                      EXCEPT !.sent = i]
  /\ at_log' = at_log \cup {"USOWR"}
  /\ clock' = now
  /\ UNCHANGED <<filename, file, filesize, header_retry, next_time,
                 last_response, msock_num, sara_sock_num, modem_open,
                 open_fails, stat_size, file_opened, verdict>>
  /\ UNCHANGED <<sendVars, sockVars, connVars>>

\* tick(), state HF_CLOSING: resp is what read_response returned, b"" also
\* when it raised.
TickClosing(now, resp) ==
  /\ state = HF_CLOSING
  /\ last_response' = resp
  /\ state' = HF_DONE
  /\ clock' = now
  /\ last' = Ticked(state, now, "response")
  /\ UNCHANGED <<filename, file, filesize, buf, buf_offset, sent_bytes, retry,
                 header_retry, next_time, msock_num, sara_sock_num, modem_open,
                 fpos, at_log, open_fails, send_fails, stat_size, file_opened,
                 verdict>>
  /\ UNCHANGED <<sendVars, sockVars, connVars>>

\* tick(), state HF_DONE: file.close(), file = None, the verdict and
\* http.close() share one try block; out is what file.close() does.
TickDone(now, out) ==
  /\ state = HF_DONE
  /\ IF file # "none" /\ CloseRaises(file, out)
     THEN /\ file' = HandleAfterClose(file, out)
          /\ last' = Ticked(state, now, "cleanup_error")
          /\ UNCHANGED <<msock_num, modem_open, at_log, verdict>>
     ELSE LET c == SockClose(msock_num, modem_open)
          IN /\ file' = "none"
             /\ verdict' = IF ResponseOK(last_response) THEN "OK" ELSE "NG"
             /\ msock_num' = c.msock
             /\ modem_open' = c.open
             /\ at_log' = at_log \cup c.at
             /\ last' = Ticked(state, now, "cleanup_ok")
  /\ state' = HF_IDLE
  /\ clock' = now
  /\ UNCHANGED <<filename, filesize, buf, buf_offset, sent_bytes, retry,
                 header_retry, next_time, last_response, sara_sock_num, fpos,
                 open_fails, send_fails, stat_size, file_opened>>
  /\ UNCHANGED <<sendVars, sockVars, connVars>>

\* HF_ABORT: the cool-down deadline.
AbortDeadlineMut(now) == now + WAIT_PREPARE
AbortDeadline(now) == now + WAIT_ABORT

\* tick(), state HF_ABORT: file.close() in a bare try (the object is kept),
\* then http.close().
TickAbort(now, out) ==
  /\ state = HF_ABORT
  /\ file' = HandleAfterClose(file, out)
  /\ LET c == SockClose(msock_num, modem_open)
     IN /\ msock_num' = c.msock
        /\ modem_open' = c.open
        /\ at_log' = at_log \cup c.at
  /\ state' = HF_WAIT
  /\ next_time' = AbortDeadline(now)
  /\ clock' = now
  /\ last' = Ticked(state, now, "abort")
  /\ UNCHANGED <<filename, filesize, buf, buf_offset, sent_bytes, retry,
                 header_retry, last_response, sara_sock_num, fpos, open_fails,
                 send_fails, stat_size, file_opened, verdict>>
  /\ UNCHANGED <<sendVars, sockVars, connVars>>

\* HF_WAIT: the deadline is reached.
WaitElapsedMut(now, deadline) == now > deadline
WaitElapsed(now, deadline) == now >= deadline

\* tick(), state HF_WAIT
TickWait(now) ==
  /\ state = HF_WAIT
  /\ IF WaitElapsed(now, next_time)
     THEN /\ retry' = 0
          /\ header_retry' = 0
          /\ state' = HF_PREPARE
          /\ last' = Ticked(state, now, "elapsed")
     ELSE /\ UNCHANGED <<retry, header_retry, state>>
          /\ last' = Ticked(state, now, "waiting")
  /\ clock' = now
  /\ UNCHANGED <<filename, file, filesize, buf, buf_offset, sent_bytes,
                 next_time, last_response, msock_num, sara_sock_num,
                 modem_open, fpos, at_log, open_fails, send_fails, stat_size,
                 file_opened, verdict>>
  /\ UNCHANGED <<sendVars, sockVars, connVars>>

\* The event loop calls start() and tick(); tick() reads the clock and
\* runs the branch of the current state.
Next ==
  \/ \E f \in Files : start(f)
  \/ \E now \in NowChoices : TickIdle(now)
  \/ \E now \in NowChoices, p \in PrepareRuns : TickPrepare(now, p.result, p.exhausted)
  \/ \E now \in NowChoices, cr \in CreateResults, co \in BOOLEAN :
       \E hs \in HeaderResults(cr) : TickOpen(now, cr, co, hs)
  \/ \E now \in NowChoices : TickSendingEof(now)
  \/ \E now \in NowChoices, i \in -1..CHUNK_SIZE : TickSending(now, i)
  \/ \E now \in NowChoices, resp \in Responses : TickClosing(now, resp)
  \/ \E now \in NowChoices, out \in CloseOutcomes : TickDone(now, out)
  \/ \E now \in NowChoices, out \in CloseOutcomes : TickAbort(now, out)
  \/ \E now \in NowChoices : TickWait(now)

Spec == Init /\ [][Next]_vars

SpecSend == Init /\ [][SendNext]_vars

SpecAt == Init /\ [][AtNext]_vars

SpecSock == Init /\ [][SockNext]_vars

\* Calls of wait_response_async with either of two expected strings and
\* timeouts, at once or a second after the previous call.
SpecWait ==
  Init /\ [][\E expected \in {"OK", "@"}, timeout \in {1000, ASYNC_TIMEOUT},
               gap \in {0, 1000},
               chunk \in {<<>>, <<OkL>>, <<PromptL>>, <<UusoclL(0)>>, <<ErrorL, OkL>>} :
                 WaitAsync(expected, timeout, gap, chunk)]_vars

SpecConn == Init /\ [][ConnNext]_vars

\* The caller keeps calling connect_step while the clock advances, and the
\* modem keeps answering.
SpecHappy ==
  /\ Init
  /\ [][HappyNext]_vars
  /\ WF_vars(HappyStep(1000))
  /\ WF_vars(ModemAnswers("ok"))

\* ---------------------------------------------------------------------
\* The receive path byte by byte: SaraR.socket_recv, _handle_uusord and
\* extract_usord_data over MicroModem.send_at / wait_response
\* ---------------------------------------------------------------------

\* Bytes read from the UART.  A byte is its character c, all the program
\* sees, and p: it is one of the peer's data bytes (TRUE) or was produced by
\* the AT transport (FALSE).
Octets(chars, payload) ==
  [i \in 1..Len(chars) |-> [c |-> chars[i], p |-> payload]]

\* The byte strings the code searches for.
Key ==
  [uusord |-> <<"+", "U", "U", "S", "O", "R", "D", ":">>,
   usord |-> <<"+", "U", "S", "O", "R", "D", ":">>,
   ok |-> <<"O", "K">>,
   error |-> <<"E", "R", "R", "O", "R">>,
   crlf |-> <<"\r", "\n">>,
   quote |-> <<"\"">>,
   colon |-> <<":">>,
   comma |-> <<",">>,
   digits |-> <<"0", "1", "2", "3", "4", "5", "6", "7", "8", "9">>]

\* bytes.find(pat, from): the first position at or after from where pat
\* occurs, positions counted from 1, 0 when it does not occur.
Find(bs, pat, from) ==
  LET At(i) == \A j \in 1..Len(pat) : bs[i + j - 1].c = pat[j]
      hits == {i \in from..(Len(bs) - Len(pat) + 1) : At(i)}
  IN IF hits = {} THEN 0 ELSE CHOOSE i \in hits : \A k \in hits : i <= k

\* bytes.strip()
Strip(b) ==
  LET keep == {i \in 1..Len(b) : b[i].c \notin {" ", "\r", "\n"}}
  IN IF keep = {} THEN <<>>
     ELSE SubSeq(b, CHOOSE i \in keep : \A k \in keep : i <= k,
                    CHOOSE i \in keep : \A k \in keep : i >= k)

\* bytes.split(sep)
RECURSIVE Split(_, _)
Split(b, sep) ==
  LET Cut(i) ==
        IF i = 0 THEN <<b>>
        ELSE <<SubSeq(b, 1, i - 1)>> \o Split(SubSeq(b, i + Len(sep), Len(b)), sep)
  IN Cut(Find(b, sep, 1))

\* int(b) for a byte string b without blanks around it: its value, -1
\* when int() raises ValueError.
RECURSIVE ToInt(_)
ToInt(d) ==
  IF d = <<>> \/ \A v \in 1..10 : Key.digits[v] # d[Len(d)].c THEN -1
  ELSE LET unit == (CHOOSE v \in 1..10 : Key.digits[v] = d[Len(d)].c) - 1
           Above(t) == IF t < 0 THEN -1 ELSE 10 * t + unit
       IN IF Len(d) = 1 THEN unit ELSE Above(ToInt(SubSeq(d, 1, Len(d) - 1)))

\* What the modem writes to the UART.
\*   "urc"   - +UUSORD: <s>,<n>
\*   "usord" - the reply to AT+USORD=<s>,<n>: the data in quotes, or for
\*             n = 0 the number of bytes waiting; then OK
ModemText(kind, s, n, data) ==
  LET Dec(k) == IF k < 10 THEN <<Key.digits[k + 1]>>
                ELSE <<Key.digits[(k \div 10) + 1], Key.digits[(k % 10) + 1]>>
      T(chars) == Octets(chars, FALSE)
      head == T(Key.crlf \o (IF kind = "urc" THEN Key.uusord ELSE Key.usord)
                \o <<" ">> \o Dec(s) \o Key.comma)
  IN IF kind = "urc" THEN head \o T(Dec(n) \o Key.crlf)
     ELSE IF n = 0
     THEN head \o T(Dec(Len(data)) \o Key.crlf \o Key.crlf \o Key.ok \o Key.crlf)
     ELSE head \o T(Dec(Len(data)) \o Key.comma \o Key.quote) \o data
              \o T(Key.quote \o Key.crlf \o Key.crlf \o Key.ok \o Key.crlf)

\* extract_usord_data(resp); None is the empty string here, "if payload"
\* skips both.
ExtractUsordData(resp) ==
  LET idx == Find(resp, Key.usord, 1)
      first == IF idx = 0 THEN 0 ELSE Find(resp, Key.quote, idx)
      end == IF first = 0 THEN 0 ELSE Find(resp, Key.quote, first + 1)
  IN IF end = 0 THEN <<>> ELSE SubSeq(resp, first + 1, end - 1)

\* wait_response(expected) over the bytes the UART delivers in up to two
\* reads: the first read ends with the whole stream (after = "none") or
\* right after the first occurrence of the string Key[after], the second
\* brings the rest.  The loop returns after the first read that leaves an
\* error marker or the expected string in the buffer and times out when
\* neither has come.
\*   found  - the expected string was found and no error marker
\*   buffer - what last_response holds
\*   rest   - bytes left unread in the UART
WaitBytes(stream, after, expected) ==
  LET cut == IF after = "none" \/ Find(stream, Key[after], 1) = 0 THEN 0
             ELSE Find(stream, Key[after], 1) + Len(Key[after]) - 1
      Stops(b) == Find(b, Key.error, 1) # 0 \/ Find(b, expected, 1) # 0
      Upto(n) ==
        [found |-> Find(SubSeq(stream, 1, n), Key.error, 1) = 0
                     /\ Find(SubSeq(stream, 1, n), expected, 1) # 0,
         buffer |-> SubSeq(stream, 1, n),
         rest |-> SubSeq(stream, n + 1, Len(stream))]
  IN IF cut > 0 /\ cut < Len(stream) /\ Stops(SubSeq(stream, 1, cut))
     THEN Upto(cut) ELSE Upto(Len(stream))

\* _handle_uusord(decoded, sock_num_expected): the loop over the lines of
\* decoded from line i on.
\*   h.rx, h.uart  - _rx_buffer, bytes unread in the UART
\*   h.data        - the peer's bytes waiting at the modem
\*   h.cuts        - where the first read of each AT+USORD reply ends
\*   h.issued      - the lengths of the AT+USORD commands sent
\*   h.replies     - payload and whole text of the replies to them
\*   h.ok          - ok_received
RECURSIVE HandleLines(_, _, _, _)
HandleLines(lines, i, expected, h) ==
  IF i > Len(lines) THEN h
  ELSE LET line == Strip(lines[i])
           parts == Split(SubSeq(line, Find(line, Key.colon, 1) + 1, Len(line)),
                          Key.comma)
           sock == ToInt(Strip(parts[1]))
           length == ToInt(Strip(parts[2]))
           k == Len(h.issued) + 1
           payload == SubSeq(h.data, 1, Min(length, Len(h.data)))
           reply == ModemText("usord", sock, length, payload)
           asked == [h EXCEPT !.issued = Append(@, length),
                              !.replies = Append(@, [payload |-> payload,
                                                     text |-> reply]),
                              !.data = SubSeq(@, Len(payload) + 1, Len(@))]
           IsOk(l) == LET t == Strip(l)
                      IN Len(t) = 2 /\ t[1].c = "O" /\ t[2].c = "K"
           Answered(w) ==
             IF ~w.found
             THEN [asked EXCEPT !.uart = w.rest]
             ELSE [asked EXCEPT
                     !.uart = w.rest,
                     !.rx = @ \o ExtractUsordData(w.buffer),
                     !.ok = @ \/ \E l \in 1..Len(Split(w.buffer, Key.crlf)) :
                                   IsOk(Split(w.buffer, Key.crlf)[l])]
           Sent(stream) ==
             Answered(WaitBytes(stream, h.cuts[k], Key.ok))
       IN IF Find(line, Key.uusord, 1) # 1
          THEN HandleLines(lines, i + 1, expected, h)
          ELSE IF Len(parts) < 2 \/ sock < 0 \/ length < 0 \/ sock # expected
          THEN HandleLines(lines, i + 1, expected, h)
          ELSE HandleLines(lines, i + 1, expected, Sent(h.uart \o reply))

\* What the modem has for one socket_recv call on socket s: the lengths its
\* +UUSORD lines announce, their text, and the peer's bytes behind them.
\* The peer sends every string of up to MaxData bytes over 'a', the double
\* quote and CR, the example a CR LF b c, and data that holds the strings
\* of the AT transport; a second +UUSORD announces one more byte.
Scenes(s) ==
  LET Payloads ==
        {Octets(t, TRUE) :
           t \in UNION {[1..n -> {"a", "\"", "\r"}] : n \in 0..MaxData}
                 \cup {<<"a", "\r", "\n", "b", "c">>, Key.ok, Key.error,
                       Key.ok \o Key.usord}}
      Urc(n) == ModemText("urc", s, n, <<>>)
  IN {[urc |-> <<>>, text |-> <<>>, data |-> <<>>]}
     \cup {[urc |-> <<Len(d)>>, text |-> Urc(Len(d)), data |-> d] : d \in Payloads}
     \cup {[urc |-> <<Len(d), 1>>, text |-> Urc(Len(d)) \o Urc(1),
            data |-> d \o Octets(<<"a">>, TRUE)] : d \in Payloads}

\* socket_recv(sock_num, size), byte by byte.
\*   scene - what the modem has for this call
\*   cutU  - where the first read of the +UUSORD wait ends
\*   cuts  - where the first read of each AT+USORD reply ends
RecvBytes(s, size, scene, cutU, cuts) ==
  /\ scene.urc # <<>> => Len(uart) <= MaxLeftover
  /\ IF rx_buffer # <<>>
     THEN /\ scene.urc = <<>> /\ cutU = "none" /\ cuts = <<"none", "none">>
          /\ rx_buffer' = Drop(rx_buffer, size)
          /\ at_ret' = [op |-> "recv", waited |-> FALSE, found |-> FALSE,
                        urc |-> <<>>, sent |-> <<>>, issued |-> <<>>,
                        replies |-> <<>>, before |-> rx_buffer,
                        stored |-> rx_buffer, ret |-> Take(rx_buffer, size)]
          /\ UNCHANGED uart
     ELSE \E w \in {WaitBytes(uart \o scene.text, cutU, Key.uusord)} :
          \E h \in {IF w.found
                    THEN HandleLines(Split(w.buffer, Key.crlf), 1, s,
                                     [rx |-> rx_buffer, uart |-> w.rest,
                                      data |-> scene.data, cuts |-> cuts,
                                      issued |-> <<>>, replies |-> <<>>,
                                      ok |-> FALSE])
                    ELSE [rx |-> rx_buffer, uart |-> w.rest,
                          data |-> scene.data, cuts |-> cuts,
                          issued |-> <<>>, replies |-> <<>>, ok |-> FALSE]} :
            /\ Len(h.issued) < 2 => cuts[2] = "none"
            /\ Len(h.issued) < 1 => cuts[1] = "none"
            /\ rx_buffer' = IF h.ok THEN Drop(h.rx, size) ELSE h.rx
            /\ uart' = h.uart
            /\ at_ret' = [op |-> "recv", waited |-> TRUE, found |-> w.found,
                          urc |-> scene.urc, sent |-> scene.data,
                          issued |-> h.issued, replies |-> h.replies,
                          before |-> rx_buffer, stored |-> h.rx,
                          ret |-> IF h.ok THEN Take(h.rx, size) ELSE <<>>]
  /\ UNCHANGED <<sock_num, socket_state, wait_state, rx_pending,
                 last_has_uusocl, m_sock_num, m_rx_buffer, modem_socks,
                 next_byte, arrived, delivered, live, stale, swallowed,
                 sk_last>>
  /\ UNCHANGED <<fsmVars, sendVars, connVars>>

\* socket_recv called again and again for socket 0 while the modem
\* announces and hands over the peer's data.
SpecBytes ==
  Init /\ [][\E size \in RecvSizes, scene \in Scenes(0),
               cutU \in {"none", "uusord"},
               c1 \in {"none", "ok"}, c2 \in {"none", "ok"} :
                 RecvBytes(0, size, scene, cutU, <<c1, c2>>)]_vars

\* ---------------------------------------------------------------------
\* Properties
\* ---------------------------------------------------------------------

\* The fields of the uploader.
uploader == <<state, filename, file, filesize, buf, buf_offset, sent_bytes,
              retry, header_retry, next_time, last_response>>

\* C1: start(filename) in a state other than IDLE returns false and leaves
\* every field of the uploader unchanged; in IDLE it returns true and moves
\* to PREPARE; is_busy() holds exactly when the state is not IDLE.
C1_StartContract ==
  [][last'.op = "start" =>
       /\ (last'.ret = "true") <=> ~is_busy
       /\ is_busy <=> state \in States \ {HF_IDLE}
       /\ IF state # HF_IDLE
          THEN last'.ret = "false" /\ UNCHANGED uploader
          ELSE last'.ret = "true" /\ state' = HF_PREPARE]_vars

\* C1 witness: a start() was rejected while a chunk upload was in progress.
C1_Witness ==
  /\ last.op = "start" /\ last.ret = "false" /\ last.from = HF_SENDING
  /\ state = HF_SENDING /\ sent_bytes > 0

\* C2 (as claimed): the third consecutive failed OPEN attempt takes the FSM
\* to ABORT.
C2_ThirdOpenFailureAborts ==
  (last.op = "tick" /\ last.from = HF_OPEN /\ last.note # "ok"
     /\ open_fails >= 3) => state = HF_ABORT

\* C3: a tick in ABORT moves to WAIT with next_time = now + 300; a PREPARE
\* tick whose attempts all raise moves to WAIT with next_time = now + 60; a
\* tick in WAIT changes nothing before next_time and on reaching it resets
\* retry and header_retry and moves to PREPARE; WAIT is left only for
\* PREPARE.
C3_CoolDown ==
  [][/\ state = HF_WAIT => state' \in {HF_WAIT, HF_PREPARE}
     /\ last'.op = "tick" =>
          /\ state = HF_ABORT =>
               state' = HF_WAIT /\ next_time' = clock' + 300
          /\ (state = HF_PREPARE /\ last'.note = "exhausted") =>
               state' = HF_WAIT /\ next_time' = clock' + 60
          /\ (state = HF_WAIT /\ clock' < next_time) =>
               UNCHANGED uploader /\ is_busy'
          /\ (state = HF_WAIT /\ clock' >= next_time) =>
               retry' = 0 /\ header_retry' = 0 /\ state' = HF_PREPARE]_vars

\* C3 witness: after 20 failed sends and the ABORT cool-down, the WAIT tick
\* at the deadline has put the FSM back in PREPARE.
C3_Witness ==
  /\ state = HF_PREPARE /\ last.op = "tick" /\ last.from = HF_WAIT
  /\ send_fails = 20 /\ clock = next_time /\ clock >= 300
  /\ retry = 0 /\ header_retry = 0

\* C4 (as claimed): in WAIT the uploader holds no open file handle.
C4_WaitHoldsNoOpenFile == state = HF_WAIT => file # "open"

\* C5 (as claimed): in every state other than IDLE the file handle is open
\* or the socket is open.
C5_NonIdleHoldsResource ==
  state # HF_IDLE => (file = "open" \/ msock_num >= 0)

\* C5 (amended): in OPEN, SENDING, CLOSING and ABORT the file handle is open
\* or the socket is open.
C5_ActiveHoldsResource ==
  state \in {HF_OPEN, HF_SENDING, HF_CLOSING, HF_ABORT} =>
    (file = "open" \/ msock_num >= 0)

\* C5 witness: an upload in ABORT after failed sends, file and socket held.
C5_Witness ==
  /\ state = HF_ABORT /\ last.from = HF_SENDING
  /\ file = "open" /\ msock_num >= 0

\* C6 (as claimed): whenever the state is IDLE the file handle is closed and
\* the socket is closed (no socket held, none left open at the modem).
C6_IdleHoldsNothing ==
  state = HF_IDLE => (file # "open" /\ msock_num = -1 /\ modem_open = {})

\* C7: in a session for an empty file no AT+USOCR or AT+USOCO is issued and
\* the file is never opened; the PREPARE tick whose stat succeeds moves to
\* DONE and the DONE tick moves to IDLE.
C7_EmptyFile ==
  (filename \in Files /\ DiskSize(filename) = 0) =>
    /\ "USOCR" \notin at_log
    /\ "USOCO" \notin at_log
    /\ ~file_opened
    /\ state \in {HF_PREPARE, HF_DONE, HF_IDLE, HF_WAIT}
    /\ (last.op = "tick" /\ last.from = HF_PREPARE /\ last.note = "stat_ok")
         => state = HF_DONE
    /\ (last.op = "tick" /\ last.from = HF_DONE) => state = HF_IDLE

\* C7 witness: the session of an empty file is over, through DONE.
C7_Witness ==
  /\ filename \in Files /\ DiskSize(filename) = 0 /\ stat_size = 0
  /\ state = HF_IDLE /\ last.op = "tick" /\ last.from = HF_DONE

\* C8: in DONE with a success response, sent_bytes equals filesize and
\* filesize is the size stat returned in the PREPARE of this session.
C8_SentEqualsFilesize ==
  (state = HF_DONE /\ ResponseOK(last_response)) =>
    (sent_bytes = filesize /\ filesize = stat_size)

\* C8 witness: a file of more than one chunk was uploaded and answered 201.
C8_Witness ==
  /\ state = HF_DONE /\ last.from = HF_CLOSING
  /\ StartsWith(last_response, <<"HTTP/1.1", "201">>)
  /\ filesize > CHUNK_SIZE /\ sent_bytes = filesize

\* C9: SENDING moves to ABORT exactly when 20 consecutive chunk sends have
\* failed since the last successful one; a send that returns a positive
\* count resets the failure counter and advances sent_bytes and buf_offset
\* by that count (a finished chunk is dropped, buf_offset back at 0).
C9_SendRetries ==
  [][state = HF_SENDING =>
       /\ state' = HF_ABORT <=> send_fails' = 20
       /\ (last'.op = "tick" /\ last'.note = "send_fail") =>
            /\ last'.sent <= 0
            /\ UNCHANGED sent_bytes
       /\ (last'.op = "tick" /\ last'.note = "sent") =>
            LET chunk == IF buf = 0 THEN ReadChunk(filename, fpos) ELSE buf
                off == IF buf = 0 THEN 0 ELSE buf_offset
            IN /\ last'.sent > 0
               /\ retry' = 0
               /\ sent_bytes' = sent_bytes + last'.sent
               /\ IF off + last'.sent >= chunk
                  THEN buf' = 0 /\ buf_offset' = 0
                  ELSE buf' = chunk /\ buf_offset' = off + last'.sent]_vars

\* C9 witness: a chunk was sent, then 20 sends in a row failed: ABORT.
C9_Witness ==
  /\ state = HF_ABORT /\ last.op = "tick" /\ last.from = HF_SENDING
  /\ send_fails = 20 /\ retry = 20 /\ sent_bytes > 0

\* C10: socket_send returns len(B) or -1, never a positive number below
\* len(B); when it returns len(B) the written counts of the replies it
\* accepted add up to len(B); a zero-write reply advances nothing and
\* counts as one retry.
C10_PartialSendContract ==
  /\ s_pc = "returned" =>
       /\ s_ret \in {s_len, -1}
       /\ (s_ret = s_len /\ s_sock >= 0) => s_accepted = s_len
  /\ (s_pc \in {"loop", "returned"} /\ s_iters > 0 /\ s_last.sent = 0) =>
       /\ s_total = s_last.total
       /\ \/ s_pc = "loop" /\ s_retries = s_last.retries + 1
          \/ s_pc = "returned" /\ s_ret = -1 /\ s_last.retries + 1 = 20

\* C10 witness: 2500 bytes, answered with two partial writes and one zero
\* write, returned 2500.
C10_Witness ==
  /\ s_pc = "returned" /\ s_len = 2500 /\ s_ret = 2500
  /\ s_iters = 3 /\ s_zero = 1 /\ s_accepted = 2500 /\ s_call_retries = 1

\* C11: when socket_send(B) returns a value >= 0, the payload bytes the modem
\* took during the call add up to len(B) - also when an exchange whose
\* payload was already written failed and was retried.
C11_WireEqualsLen ==
  (s_pc = "returned" /\ s_sock >= 0 /\ s_ret >= 0) => s_wire = s_len

\* C12 as stated: the retried iterations of one call, counted over the whole
\* call, are at most 20.
C12_RetriesPerCall == s_call_retries <= 20

\* C12: the retried iterations since the last positive write are at most
\* 20 (the counter restarts with every step of progress); the call returns
\* -1 exactly when the 20th of them is used up.
C12_RetriesPerStep ==
  /\ s_retries <= 20
  /\ s_pc = "loop" => s_retries < 20
  /\ (s_pc = "returned" /\ s_sock >= 0 /\ s_len > 0) =>
       (s_ret = -1 <=> s_retries = 20)

\* C12 witness: a call that made progress, then used up 20 retries in a row
\* and returned -1, having retried more than 20 times in all.
C12_Witness ==
  /\ s_pc = "returned" /\ s_ret = -1 /\ s_retries = 20
  /\ s_total > 0 /\ s_call_retries > 20

\* The last operation called socket_recv (directly, or through poll).
RecvReturned == sk_last.op \in {"socket_recv", "poll"}

\* C13: socket_connect fails whenever the AT+USOCO response contains
\* +UUSOCL, also when OK follows it.
C13_ConnectFailsOnUusocl ==
  (sk_last.op = "connect" /\ sk_last.uusocl) => sk_last.ret = "connect_failed"

\* C14: a socket_connect_step call returns None, True or False; when the
\* modem answered the AT+USOCO of the step with +UUSOCL and OK, it returns
\* False, has issued AT+USOCL and leaves the active socket id at -1.
C14_EarlyCloseStep ==
  sk_last.op = "connect_step" =>
    /\ sk_last.ret \in {"none", "true", "false"}
    /\ last_has_uusocl =>
         /\ sk_last.ret = "false"
         /\ AtCmd("USOCL", sk_last.sock) \in sk_last.cmds
         /\ sock_num = -1

\* C15: an active socket id >= 0 (SaraR.sock_num, MicroSocket.sock_num)
\* names a socket that was created, has not been closed by the host and for
\* which the host has read no +UUSOCL since.
C15_ActiveSocketIsLive ==
  /\ sock_num >= 0 => sock_num \in live
  /\ m_sock_num >= 0 => m_sock_num \in live

\* C16: socket_recv on a socket closed by socket_close, with no
\* socket_create in between, returns empty bytes.
C16_RecvAfterCloseEmpty ==
  [][(RecvReturned' /\ sk_last'.sock \in stale) => sk_last'.data = <<>>]_vars

\* C17: no operation issues AT+USOCL for a socket that socket_close has
\* already closed.
C17_CloseIdempotent == sk_last.reclose = 0

\* C18: the bytes returned by socket_recv so far, followed by what is still
\* in _rx_buffer, are the payloads appended to _rx_buffer in arrival
\* order; called with a non-empty _rx_buffer, socket_recv returns its first
\* min(size, len) bytes, removes exactly those, issues no AT command and
\* reads nothing from the UART.
C18_ReceiveFifo ==
  [][/\ delivered' \o rx_buffer' = arrived'
     /\ (sk_last'.op \in {"socket_recv", "poll"} /\ rx_buffer # <<>>) =>
          LET k == IF sk_last'.size < Len(rx_buffer) THEN sk_last'.size
                   ELSE Len(rx_buffer)
          IN /\ sk_last'.data = SubSeq(rx_buffer, 1, k)
             /\ rx_buffer' = SubSeq(rx_buffer, k + 1, Len(rx_buffer))
             /\ sk_last'.cmds = {}
             /\ uart' = uart
             /\ last_has_uusocl' = last_has_uusocl]_vars

\* C18 witness: three bytes arrived in two payloads; the second
\* socket_recv(size 1) found two bytes buffered and returned the first.
C18_Witness ==
  /\ sk_last.op = "socket_recv" /\ sk_last.size = 1 /\ sk_last.data = <<2>>
  /\ delivered = <<1, 2>> /\ rx_buffer = <<3>> /\ arrived = <<1, 2, 3>>

\* C19: a +UUSORD with data for an open socket that the wait of another
\* command consumed is processed by the next socket_recv on that socket:
\* AT+USORD is issued for it.
C19_InterleavedUrcProcessed ==
  [][(/\ RecvReturned' /\ sk_last'.sock \in swallowed /\ rx_buffer = <<>>
      /\ sk_last'.sock \in modem_socks /\ sk_last'.sock \in live) =>
       AtCmd("USORD", sk_last'.sock) \in sk_last'.cmds]_vars

\* C20: a synchronous send_at reports success only if the OK terminator
\* was received and no wait of the call accumulated an error marker; after
\* an error marker or a timeout it reports failure.
C20_SendAtSuccess ==
  at_ret.op = "send_at" =>
    (at_ret.ok <=> (at_ret.fin = "found" /\ ~at_ret.perr))

\* C26: get_imsi returns SIM_FAIL whenever a reply of the modem to AT+CIMI
\* that it read contains the phrase "SIM failure", "+CME ERROR: SIM failure"
\* included.
C26_SimFailSentinel ==
  (at_ret.op = "get_imsi" /\ at_ret.tries > 0 /\ at_ret.sim)
    => at_ret.ret = "SIM_FAIL"

\* C27: the timestamp get_time returns has year 2000 + yy; for R410 it is
\* the reported one plus 9 hours as a calendar time (the date advances when
\* hour + 9 >= 24), for R510 it is the reported one.
C27_TimePlusNineHours ==
  (at_ret.op = "get_time" /\ at_ret.ret # <<>>) =>
    LET t == at_ret.reported
        r == at_ret.ret
    IN /\ r[1] = 2000 + t[1]
       /\ at_ret.model = "R510" => r = <<2000 + t[1], t[2], t[3], t[4], t[5], t[6]>>
       /\ at_ret.model = "R410" =>
            /\ r[4] = (t[4] + 9) % 24 /\ r[5] = t[5] /\ r[6] = t[6]
            /\ IF t[4] + 9 >= 24
               THEN <<r[2], r[3]>> # <<t[2], t[3]>>
               ELSE <<r[2], r[3]>> = <<t[2], t[3]>>

\* C21: when the timeout of a WAIT state other than r410_cops2_wait,
\* cereg_check_wait and cgatt_check_wait elapses without the expected OK,
\* connect_step sets connect_state to idle and returns the fatal result,
\* which is not the false of a call that is still progressing.
C21_TimeoutIsFatal ==
  (/\ c_last.op = "connect_step"
   /\ c_last.timed_out
   /\ c_last.from \notin {"r410_cops2_wait", "cereg_check_wait", "cgatt_check_wait"})
    => (connect_state = "idle" /\ c_last.ret = "none")

\* C22: a call of connect_step that finds the timeout of its WAIT state
\* elapsed, no response having arrived, leaves that state.
C22_LeavesWaitOnTimeout ==
  (c_last.op = "connect_step" /\ c_last.timed_out)
    => connect_state # c_last.from

\* C23: connect_state = done implies that registration and attach were
\* both observed since the sequence left idle and, for R510, that
\* AT+UPSDA=0,3 was answered with OK.
C23_DoneImpliesActivated ==
  connect_state = "done" =>
    /\ c_seen = {"cereg", "cgatt"}
    /\ modem_model = "R510" => "AT+UPSDA=0,3" \in c_answered

\* C25: with model R510, AT+UPSD=0,100,1 is dispatched only after
\* AT+UPSD=0,0,0 was answered with OK, AT+UPSDA=0,3 only after
\* AT+UPSD=0,100,1 was, both only after +CGATT: 1 was observed, and
\* connect_state becomes done only after the OK for AT+UPSDA=0,3.
C25_UpsdInOrder ==
  modem_model = "R510" =>
    LET issued == {c_last.cmds[k] : k \in 1..Len(c_last.cmds)}
    IN /\ issued \cap UPSD # {} => "cgatt" \in c_seen
       /\ "AT+UPSD=0,100,1" \in issued => "AT+UPSD=0,0,0" \in c_answered
       /\ "AT+UPSDA=0,3" \in issued => "AT+UPSD=0,100,1" \in c_answered
       /\ connect_state = "done" => "AT+UPSDA=0,3" \in c_answered

\* C28: whenever connect_step dispatches a command, no wait of
\* wait_response_async opened for an earlier command is still open.
C28_NoOpenWaitAtDispatch ==
  (c_last.op = "connect_step" /\ c_last.cmds # <<>>) => ~c_last.open

\* C29: a call of connect_step performs at most one AT dispatch or one
\* async-wait check, never both and never two dispatches.
C29_OneActionPerCall ==
  c_last.op = "connect_step" =>
    Len(c_last.cmds) + (IF c_last.waited THEN 1 ELSE 0) <= 1

\* C30: when the timeout of r410_cops2_wait, cereg_check_wait or
\* cgatt_check_wait elapses, the sequence does not go to idle but back to
\* the SEND state of the same command.
C30_LoopsBackToSend ==
  (c_last.op = "connect_step" /\ c_last.timed_out) =>
    /\ c_last.from = "r410_cops2_wait" => connect_state = "r410_cops2_send"
    /\ c_last.from = "cereg_check_wait" => connect_state = "cereg_check_send"
    /\ c_last.from = "cgatt_check_wait" => connect_state = "cgatt_check_send"

\* C24: with model R410 and a modem that answers every command with OK,
\* AT+CEREG? with "+CEREG: 0,1" and AT+CGATT? with "+CGATT: 1", the commands
\* dispatched by repeated calls of connect_step are AT+UMNOPROF=20,
\* AT+CFUN=15, AT+COPS=2, AT+CGDCONT, AT+UAUTHREQ, AT+COPS=0, AT+CEREG?,
\* AT+CGATT? in this order, none of them AT+UPSD or AT+UPSDA, and
\* connect_step eventually returns true.
C24_R410HappyPath ==
  LET path == <<"AT+UMNOPROF=20", "AT+CFUN=15", "AT+COPS=2", "AT+CGDCONT IP",
                "AT+UAUTHREQ", "AT+COPS=0", "AT+CEREG?", "AT+CGATT?">>
  IN /\ [](modem_model = "R410" =>
             /\ Len(c_sent) <= Len(path)
             /\ c_sent = SubSeq(path, 1, Len(c_sent)))
     /\ (modem_model = "R410") ~>
          (c_last.op = "connect_step" /\ c_last.ret = "true")

C24_Witness ==
  /\ modem_model = "R410"
  /\ c_last.op = "connect_step" /\ c_last.ret = "true"
  /\ Len(c_sent) = 8 /\ c_sent[5] = "AT+UAUTHREQ" /\ c_sent[8] = "AT+CGATT?"

\* C31: send_at with expect_prompt writes data_after_prompt only after the
\* prompt was received; when the prompt wait ends on an error marker or on
\* its timeout, no payload is written and send_at reports failure.
C31_PromptBeforePayload ==
  (at_ret.op = "send_at" /\ at_ret.prompt # "none") =>
    /\ at_ret.wrote => at_ret.pseen
    /\ ~at_ret.pseen => ~at_ret.ok

\* C32: a call of wait_response_async with no pending wait opens one with
\* the expected string and the timeout of the call and an empty buffer; every
\* call appends the bytes read to the buffer of the pending wait and returns
\* true when its expected string is in the buffer, else nil when more than
\* its timeout has passed since it was opened, else false.  True and nil
\* clear the pending wait, false keeps it with the expected string and the
\* timeout it was opened with, whatever the arguments of the call.
C32_AsyncWaitContract ==
  at_ret.op = "wait_async" =>
    LET b == at_ret.before
        exp == IF b.active THEN b.expected ELSE at_ret.expected
        tmo == IF b.active THEN b.timeout ELSE at_ret.timeout
        buffer == (IF b.active THEN b.buffer ELSE <<>>) \o at_ret.read
        since == IF b.active THEN at_ret.age ELSE 0
    IN /\ at_ret.ret = (IF HasMarker(buffer, exp) THEN "true"
                        ELSE IF since > tmo THEN "none" ELSE "false")
       /\ at_ret.ret \in {"true", "none"} => ~wait_state.active
       /\ at_ret.ret = "false" =>
            /\ wait_state.active /\ wait_state.buffer = buffer
            /\ wait_state.expected = exp /\ wait_state.timeout = tmo

\* A call whose arguments differ from those of the pending wait, and for
\* which they would change the result: the expected string of the call is in
\* the buffer, the one of the pending wait is not.
C32_Witness ==
  /\ at_ret.op = "wait_async" /\ at_ret.before.active
  /\ at_ret.before.expected # at_ret.expected
  /\ at_ret.before.timeout # at_ret.timeout
  /\ HasMarker(at_ret.before.buffer \o at_ret.read, at_ret.expected)
  /\ at_ret.ret = "false"

\* C36: the state of the upload FSM changes only along IDLE->PREPARE (by
\* start), PREPARE->{OPEN, DONE, WAIT}, OPEN->{SENDING, WAIT, ABORT},
\* SENDING->{CLOSING, ABORT}, CLOSING->DONE, DONE->IDLE, ABORT->WAIT and
\* WAIT->PREPARE; a tick in CLOSING leads to DONE, a tick in DONE to IDLE,
\* and a tick in IDLE changes no field of the uploader.
C36_UploadEdges ==
  [][/\ state' # state =>
          <<state, state'>> \in
            {<<HF_IDLE, HF_PREPARE>>, <<HF_PREPARE, HF_OPEN>>,
             <<HF_PREPARE, HF_DONE>>, <<HF_PREPARE, HF_WAIT>>,
             <<HF_OPEN, HF_SENDING>>, <<HF_OPEN, HF_WAIT>>,
             <<HF_OPEN, HF_ABORT>>, <<HF_SENDING, HF_CLOSING>>,
             <<HF_SENDING, HF_ABORT>>, <<HF_CLOSING, HF_DONE>>,
             <<HF_DONE, HF_IDLE>>, <<HF_ABORT, HF_WAIT>>,
             <<HF_WAIT, HF_PREPARE>>}
     /\ (state = HF_IDLE /\ state' # HF_IDLE) => last'.op = "start"
     /\ (last'.op = "tick" /\ state = HF_CLOSING) => state' = HF_DONE
     /\ (last'.op = "tick" /\ state = HF_DONE) => state' = HF_IDLE
     /\ (last'.op = "tick" /\ state = HF_IDLE) => UNCHANGED uploader]_vars

\* A session that has gone through the whole cycle is back in IDLE.
C36_Witness ==
  /\ state = HF_IDLE /\ last.op = "tick" /\ last.from = HF_DONE
  /\ sent_bytes > 0 /\ verdict = "OK"

\* C37: at most one modem socket is open at any time, and none is open
\* while the upload FSM is in IDLE: every socket obtained with AT+USOCR is
\* closed with AT+USOCL before the next AT+USOCR and before the FSM is
\* back in IDLE.
C37_NoSocketLeak ==
  /\ Cardinality(modem_open) <= 1
  /\ state = HF_IDLE => modem_open = {}

\* C38: a session reported as HTTP success in DONE has sent a request and
\* read its response: a session of an empty file, which goes from PREPARE
\* to DONE without a request, is never given the verdict OK.
C38_VerdictOfThisSession ==
  verdict = "OK" => (stat_size > 0 /\ "USOWR" \in at_log)

\* C33: for the reply +USORD: <sock>,<len>,"<payload>" of the modem,
\* extract_usord_data returns the payload whole, whatever bytes it holds:
\* CR, LF and double quotes in it are data.
C33_ExtractWholePayload ==
  at_ret.op = "recv" =>
    \A k \in DOMAIN at_ret.replies :
      at_ret.replies[k].payload # <<>> =>
        ExtractUsordData(at_ret.replies[k].text) = at_ret.replies[k].payload

\* C34: no AT+USORD is issued for a +UUSORD that announces length 0.
C34_NoReadForLengthZero ==
  at_ret.op = "recv" =>
    \A k \in DOMAIN at_ret.issued : at_ret.issued[k] # 0

\* C35: _rx_buffer holds only bytes of +USORD payloads, never bytes the AT
\* transport produced.
C35_OnlyPayloadBytes ==
  at_ret.op = "recv" =>
    \A i \in DOMAIN at_ret.stored : at_ret.stored[i].p

\* C39: when the wait of socket_recv has found +UUSORD: and the modem
\* announced data for the socket, AT+USORD is issued, wherever the reads
\* of the UART split the notification.
C39_SplitNotificationHandled ==
  (/\ at_ret.op = "recv" /\ at_ret.found
   /\ at_ret.urc # <<>> /\ at_ret.urc[1] > 0) =>
    at_ret.issued # <<>>

\* C40: _rx_buffer grows by exactly the payload bytes of the AT+USORD
\* replies of the call, also when a payload holds OK or ERROR (payloads
\* with a double quote are left to C33).
C40_TransparentReceive ==
  (/\ at_ret.op = "recv"
   /\ \A k \in DOMAIN at_ret.replies :
        \A i \in DOMAIN at_ret.replies[k].payload :
          at_ret.replies[k].payload[i].c # "\"") =>
    LET P(k) == IF k <= Len(at_ret.replies) THEN at_ret.replies[k].payload
                ELSE <<>>
    IN at_ret.stored = at_ret.before \o P(1) \o P(2)

====
